---------------------------- MODULE Spec2Model ----------------------------
(***************************************************************************)
(* A model of the openrouter-client package: the three services            *)
(* (OpenRouterTextService, OpenRouterImageService, OpenRouterModelsService)*)
(* run one call against an upstream whose replies are chosen by the        *)
(* environment.  Every handler is cut at its awaits: the call up to its    *)
(* fetch, the continuation after the reply, and, for images, the           *)
(* continuation after the secondary download.                              *)
(*                                                                         *)
(* Strings the code inspects are sequences of runs [c, n]: n copies of the *)
(* token c.  A token is one character ("LF" is a line feed, "SP" a space)  *)
(* or one of the literals the code searches for ("data:image/",            *)
(* ";base64,", "http://", "https://").  Strings the code only copies are   *)
(* TLA+ strings.  JSON values are records tagged by t.                     *)
(***************************************************************************)
EXTENDS Integers, Sequences, FiniteSets, TLC

VARIABLES
    config,     \* the IOpenRouterConfig the service was constructed with
    pc,         \* where the call is: idle, an await, or done
    request,    \* the request object of the call in progress
    fetchLog,   \* every fetch() issued so far, in order
    response,   \* the upstream response the call received
    download,   \* the response of the secondary image download
    frame,      \* locals of the suspended generateImage call
    outcome,    \* how the returned promise settled
    passed,     \* the object the caller passed to the constructor or factory
    client,     \* the OpenRouterClient, when the factory was used
    handed,     \* the object the last getConfig() returned to the caller
    writes,     \* how many properties the caller has written so far
    calls,      \* the calls in progress when several run at once
    service,    \* the call on OpenRouterService that is in progress
    tables,     \* the documents of the Convex tables jobs, keywords, phrases
    view        \* the state and the effects of the AISuggestions component

clientVars == <<passed, client, handed, writes>>
appVars == <<service, tables, view>>
vars == <<config, pc, request, fetchLog, response, download, frame, outcome,
          passed, client, handed, writes, calls, service, tables, view>>

-----------------------------------------------------------------------------
(* Bounds of the model *)

MaxEntries == 2      \* entries of message.images
MaxPayloadLen == 4   \* runs in the payload of an enumerated data URL
MaxModels == 2       \* entries of the data array of a model listing
MaxWrites == 2       \* property writes by the caller to configuration objects
MaxJobs == 2         \* jobs inserted
MaxKeywords == 2     \* keywords inserted
MaxPhrases == 2      \* phrases inserted
MaxRuns == 3         \* runs of the effect of AISuggestions

-----------------------------------------------------------------------------
(* Strings *)

R(c, n) == [c |-> c, n |-> n]
Ch(c) == <<R(c, 1)>>

\* JavaScript's line terminators: what "." of a regular expression skips
LineTerminators == {"LF", "CR"}
\* what \s of a regular expression, trim() and atob() treat as white space
WhiteSpace == {"SP", "LF", "CR", "TAB"}
Base64Alphabet == {"Q", "A", "+", "/"}

TokLen(c) ==
    CASE c = "data:image/" -> 11
      [] c = ";base64," -> 8
      [] c = "http://" -> 7
      [] c = "https://" -> 8
      [] OTHER -> 1

RECURSIVE StrLen(_)
StrLen(s) == IF s = <<>> THEN 0 ELSE TokLen(Head(s).c) * Head(s).n + StrLen(Tail(s))

\* String.prototype.startsWith for the literals the code tests
StartsWith(s, lit) == s # <<>> /\ Head(s).c = lit /\ Head(s).n >= 1

\* String.prototype.trim() === ""
TrimIsEmpty(s) == \A i \in 1..Len(s) : s[i].c \in WhiteSpace \/ s[i].n = 0

\* String.prototype.trim()
RECURSIVE TrimStart(_)
TrimStart(s) ==
    IF s = <<>> THEN s
    ELSE IF Head(s).c \in WhiteSpace \/ Head(s).n = 0 THEN TrimStart(Tail(s))
    ELSE s
RECURSIVE TrimEnd(_)
TrimEnd(s) ==
    IF s = <<>> THEN s
    ELSE IF s[Len(s)].c \in WhiteSpace \/ s[Len(s)].n = 0
    THEN TrimEnd(SubSeq(s, 1, Len(s) - 1))
    ELSE s
Trim(s) == TrimEnd(TrimStart(s))

\* s.replace(/\s/g, "")
StripWhiteSpace(s) == SelectSeq(s, LAMBDA r : r.c \notin WhiteSpace)

-----------------------------------------------------------------------------
(* JSON values: undefined, null, strings, numbers, arrays, objects *)

Absent == [t |-> "undefined"]
JNull == [t |-> "null"]
JStr(s) == [t |-> "string", s |-> s]
JNum(n) == [t |-> "number", n |-> n]
JArr(a) == [t |-> "array", a |-> a]

\* JavaScript truthiness
Truthy(v) ==
    CASE v.t = "undefined" -> FALSE
      [] v.t = "null" -> FALSE
      [] v.t = "string" -> StrLen(v.s) > 0
      [] v.t = "number" -> v.n # 0
      [] OTHER -> TRUE

\* v?.f : undefined unless v is an object that has f
Get(v, f) == IF v.t = "object" /\ f \in DOMAIN v THEN v[f] ELSE Absent

\* v?.[0]
First(v) == IF v.t = "array" /\ Len(v.a) > 0 THEN v.a[1] ELSE Absent

\* a mutation: the left operand is ignored
Second(a, b) == b

\* a || b
Or(a, b) == IF Truthy(a) THEN a ELSE b

JObj(model, choices, data) ==
    [t |-> "object", model |-> model, choices |-> choices, data |-> data]
Choice(message) == [t |-> "object", message |-> message]
Message(images, content, image_url) ==
    [t |-> "object", images |-> images, content |-> content, image_url |-> image_url]

\* the result of JSON.parse on a body that is not JSON
NotJson == [t |-> "invalid"]

\* a string the code only copies, and a boolean
Text(v) == [t |-> "text", v |-> v]
JBool(b) == [t |-> "boolean", b |-> b]

\* request.f of a request object: undefined when the caller left f out
Field(req, f) == IF f \in DOMAIN req THEN req[f] ELSE Absent

\* what JSON.stringify keeps of an object: its properties that are not
\* undefined
Defined(obj) == [f \in {g \in DOMAIN obj : g = "t" \/ obj[g] # Absent} |-> obj[f]]

\* JSON.stringify of a string of runs: quoted, a line feed escaped
RECURSIVE Escaped(_)
Escaped(s) ==
    IF s = <<>> THEN ""
    ELSE IF Head(s).n = 0 THEN Escaped(Tail(s))
    ELSE (CASE Head(s).c = "LF" -> "\\n"
            [] Head(s).c = "SP" -> " "
            [] OTHER -> Head(s).c)
         \o Escaped(<<R(Head(s).c, Head(s).n - 1)>> \o Tail(s))

\* JSON.stringify of a number, a string or null; undefined inside an object
\* is left out by the caller
StringifyValue(v) ==
    CASE v.t = "number" -> ToString(v.n)
      [] v.t = "string" -> "\"" \o Escaped(v.s) \o "\""
      [] v.t = "text" -> "\"" \o v.v \o "\""
      [] OTHER -> "null"

\* the members "key":value of an object for the keys given, in their order
RECURSIVE Members(_, _, _)
Members(obj, keys, sep) ==
    IF keys = <<>> THEN ""
    ELSE IF Get(obj, Head(keys)) = Absent THEN Members(obj, Tail(keys), sep)
    ELSE sep \o "\"" \o Head(keys) \o "\":" \o StringifyValue(obj[Head(keys)])
         \o Members(obj, Tail(keys), ",")

\* JSON.stringify(userPayload): undefined for undefined, else the object
\* with its properties in the order of its keys
Stringify(v) ==
    IF v.t = "object" THEN Text("{" \o Members(v, v.keys, "") \o "}")
    ELSE Absent

-----------------------------------------------------------------------------
(* Promises and errors *)

Pending == [state |-> "pending"]
Resolved(v) == [state |-> "resolved", value |-> v]
Rejected(e) == [state |-> "rejected", error |-> e]

\* new Error(message): the message is the sequence of its interpolated parts
Err(message) == [message |-> message]
\* an Error with the responseText and status properties attached to it
ErrWith(message, responseText, status) ==
    [message |-> message, responseText |-> responseText, status |-> status]

\* errors raised by the platform, not by this package
FetchFailed == Err(<<"TypeError: fetch failed">>)
BodyReadFailed == Err(<<"TypeError: body stream could not be read">>)
JsonSyntaxError == Err(<<"SyntaxError: Unexpected token">>)
InvalidCharacterError == Err(<<"InvalidCharacterError: atob">>)
NullDereference == Err(<<"TypeError: Cannot read properties of null">>)

MissingKey == Err(<<"Missing OPENROUTER_API_KEY in configuration">>)

\* message.includes(part)
Contains(message, part) == part = "" \/ \E i \in 1..Len(message) : message[i] = part

-----------------------------------------------------------------------------
(* Configuration and HTTP *)

ModelIds == {<<>>, Ch("SP"), Ch("m"), <<R("SP", 1), R("o", 1), R("SP", 1)>>}
DefaultModels == {JStr(<<>>), JStr(Ch("d"))}
ModelOverrides == {Absent, JNum(5)} \cup {JStr(s) : s \in ModelIds}

Configs ==
    [apiKey : {"", "sk-or-key"},
     defaultTextModel : DefaultModels,
     defaultImageModel : DefaultModels]

\* this.config.baseUrl || "https://openrouter.ai/api/v1", then the path
ChatEndpoint == "https://openrouter.ai/api/v1/chat/completions"
ModelsEndpoint == "https://openrouter.ai/api/v1/models"

Statuses == {200, 401, 500}
StatusText(status) ==
    CASE status = 200 -> "OK"
      [] status = 401 -> "Unauthorized"
      [] OTHER -> "Internal Server Error"

\* Response.ok
Ok(res) == res.status >= 200 /\ res.status <= 299

\* a body is its text together with what JSON.parse makes of that text
Body(text, parsed) == [text |-> text, parsed |-> parsed]

\* bodies of failed requests: empty, plain text, and a JSON document
ErrorDetailJson == [t |-> "object", error |-> JStr(Ch("x"))]
ErrorBodies ==
    { Body("", NotJson),
      Body("Invalid API key", NotJson),
      Body("{\"error\":\"x\"}", ErrorDetailJson) }

\* JSON.stringify(value, null, 2) of the bodies above
Stringify2(parsed) ==
    IF parsed = ErrorDetailJson THEN "{\n  \"error\": \"x\"\n}" ELSE "<json>"

\* a response: fetch() resolved with a status; reading its body works or not
HttpResponse(status, readable, body) ==
    [net |-> "ok", status |-> status, statusText |-> StatusText(status),
     readable |-> readable, body |-> body]
\* fetch() itself rejected
NetworkError ==
    [net |-> "failed", status |-> 0, statusText |-> "", readable |-> FALSE,
     body |-> Body("", NotJson)]
NoResponse ==
    [net |-> "none", status |-> 0, statusText |-> "", readable |-> FALSE,
     body |-> Body("", NotJson)]

FailedResponses ==
    {HttpResponse(st, rd, b) : st \in Statuses \ {200}, rd \in BOOLEAN, b \in ErrorBodies}

\* a fetch(): its method and URL, the key of its Authorization header ("" when
\* it has no headers) and the model of its JSON body (Absent when it has no
\* body or the body has no model); kind tells the fetches of the code apart
Fetch(method, url, kind, apiKey, model) ==
    [method |-> method, url |-> url, kind |-> kind,
     authorization |-> apiKey, model |-> model, body |-> Absent]

\* the fetch with the object that JSON.stringify made its body of
WithBody(fetch, body) == [fetch EXCEPT !.body = body]

\* a mutation: the credential check is gone
NoCredentialCheck(cfg) == FALSE

\* !this.config.apiKey, the first statement of each of the three operations
MissingCredential(cfg) == cfg.apiKey = ""

-----------------------------------------------------------------------------
(* OpenRouterTextService *)

TextModelRequired ==
    Err(<<"OpenRouter text model is required but was not provided or is invalid">>)
MissingContent == Err(<<"OpenRouter response missing content">>)

\* a mutation: white space passes for a model identifier
EmptyModel(model) == ~Truthy(model) \/ model.t # "string"

\* !model || typeof model !== "string" || model.trim() === ""
InvalidModel(model) ==
    ~Truthy(model) \/ model.t # "string" \/ TrimIsEmpty(model.s)

\* a mutation: the configured default comes first
defaultFirst(override, default) == Or(default, override)

\* request.model || this.config.defaultTextModel (defaultImageModel)
resolveModel(override, default) == Or(override, default)

\* a mutation: only the type of the content is checked
ContentNotString(content) == content.t # "string"

\* !content || typeof content !== "string"
NoContent(content) == ~Truthy(content) \/ content.t # "string"

TextRequests == [op : {"completeText"}, model : ModelOverrides]

\* the payloads, prompts and sampling parameters of the requests whose
\* body is looked at
Payload(keyword, count) ==
    [t |-> "object", keys |-> <<"keyword", "count">>, keyword |-> keyword, count |-> count]
UserPayloads ==
    {Payload(Absent, Absent), Payload(JStr(Ch("k")), Absent),
     Payload(JStr(<<R("k", 1), R("LF", 1)>>), JNum(0)), Payload(JNull, JNum(3))}
Temperatures == {Absent, JNum(0), JNum(1), JStr(Ch("1"))}
TopPs == {Absent, JNum(0), JNull}
FullTextRequests ==
    [op : {"completeText"}, model : {Absent, JStr(<<R("SP", 1), R("o", 1), R("SP", 1)>>)},
     systemPrompt : {Text("Extract keywords")}, userPayload : UserPayloads,
     temperature : Temperatures, topP : TopPs]

\* a mutation: 0 counts as not supplied
truthyNumber(v) == IF v.t = "number" /\ Truthy(v) THEN v ELSE Absent

\* typeof v === "number" ? v : undefined
numberOrUndefined(v) == IF v.t = "number" THEN v ELSE Absent

ChatMessage(role, content) ==
    Defined([t |-> "object", role |-> Text(role), content |-> content])

\* the body of completeText as JSON.stringify(body) sends it: lines 32-42
textBody(req, model) ==
    Defined([t |-> "object",
             model |-> JStr(Trim(model.s)),
             response_format |-> [t |-> "object", type |-> Text("json_object")],
             temperature |-> numberOrUndefined(Field(req, "temperature")),
             top_p |-> numberOrUndefined(Field(req, "topP")),
             messages |-> JArr(<<ChatMessage("system", Field(req, "systemPrompt")),
                                 ChatMessage("user", Stringify(Field(req, "userPayload")))>>)])

TextContents ==
    {Absent, JNull, JStr(<<>>), JStr(Ch("H")), JStr(<<R("SP", 1), R("H", 1)>>),
     JNum(0), JNum(5), JArr(<<>>)}
ReplyModels == {Absent, JStr(Ch("u"))}
TextChoices ==
    {Absent, JArr(<<>>), JArr(<<JNull>>), JArr(<<Choice(Absent)>>)}
    \cup {JArr(<<Choice(Message(Absent, c, Absent))>>) : c \in TextContents}
    \cup {JArr(<<Choice(Message(Absent, c, Absent)),
                 Choice(Message(Absent, JStr(Ch("Z")), Absent))>>) : c \in TextContents}
TextReplies ==
    {JNull, NotJson} \cup {JObj(m, c, Absent) : m \in ReplyModels, c \in TextChoices}

TextResponses ==
    {NetworkError} \cup FailedResponses
    \cup {HttpResponse(200, rd, Body("<reply>", j)) : rd \in BOOLEAN, j \in TextReplies}

\* completeText after "await fetch": lines 63-79
completeTextSettle(res, model) ==
    IF res.net = "failed" THEN Rejected(FetchFailed)
    ELSE IF ~Ok(res) THEN
        LET txt == IF res.readable THEN res.body.text ELSE ""
        IN  Rejected(Err(<<"OpenRouter chat completion failed: ",
                           ToString(res.status), " ", txt>>))
    ELSE IF ~res.readable THEN Rejected(BodyReadFailed)
    ELSE IF res.body.parsed = NotJson THEN Rejected(JsonSyntaxError)
    ELSE
        LET json == res.body.parsed
            content == Get(Get(First(Get(json, "choices")), "message"), "content")
        IN  IF NoContent(content)
            THEN Rejected(MissingContent)
            ELSE Resolved([text |-> content.s,
                           model |-> Or(Get(json, "model"), model),
                           rawResponse |-> json])

\* completeText up to "await fetch", on one of the requests given:
\* lines 17-61
completeTextWith(requests) ==
    /\ pc = "idle"
    /\ \E req \in requests :
        LET model == resolveModel(req.model, config.defaultTextModel) IN
        /\ request' = req
        /\ IF MissingCredential(config)
           THEN /\ outcome' = Rejected(MissingKey)
                /\ pc' = "done"
                /\ UNCHANGED <<fetchLog, frame>>
           ELSE IF InvalidModel(model)
           THEN /\ outcome' = Rejected(TextModelRequired)
                /\ pc' = "done"
                /\ UNCHANGED <<fetchLog, frame>>
           ELSE /\ fetchLog' = Append(fetchLog,
                                      WithBody(Fetch("POST", ChatEndpoint, "completion",
                                                     config.apiKey, JStr(Trim(model.s))),
                                               textBody(req, model)))
                /\ frame' = [model |-> model]
                /\ pc' = "completeText:fetch"
                /\ UNCHANGED outcome
    /\ UNCHANGED <<config, response, download>>
    /\ UNCHANGED <<clientVars, calls, appVars>>

completeTextCall == completeTextWith(TextRequests)

\* a mutation: a non-2xx answer makes the call request the endpoint again
completeTextResumeRetrying ==
    /\ pc = "completeText:fetch"
    /\ \E res \in TextResponses :
        /\ response' = res
        /\ IF res.net = "ok" /\ ~Ok(res)
           THEN /\ fetchLog' = Append(fetchLog, fetchLog[Len(fetchLog)])
                /\ UNCHANGED <<pc, outcome>>
           ELSE /\ outcome' = completeTextSettle(res, frame.model)
                /\ pc' = "done"
                /\ UNCHANGED fetchLog
    /\ UNCHANGED <<config, request, download, frame>>
    /\ UNCHANGED <<clientVars, calls, appVars>>

\* completeText from the answer on, the upstream answering with one of
\* the responses given
completeTextAnswered(responses) ==
    /\ pc = "completeText:fetch"
    /\ \E res \in responses :
        /\ response' = res
        /\ outcome' = completeTextSettle(res, frame.model)
    /\ pc' = "done"
    /\ UNCHANGED <<config, request, fetchLog, download, frame>>
    /\ UNCHANGED <<clientVars, calls, appVars>>

completeTextResume == completeTextAnswered(TextResponses)

-----------------------------------------------------------------------------
(* OpenRouterModelsService *)

\* the order String.prototype.localeCompare puts the display names in:
\* lower case before upper case of the same letter, unlike code-unit order
NameRank(name) ==
    CASE name = "alpha" -> 1
      [] name = "Alpha" -> 2
      [] OTHER -> 3

\* a mutation: the comparison is turned around
LocaleGeq(a, b) == NameRank(a.name) >= NameRank(b.name)

\* a.name.localeCompare(b.name) <= 0
LocaleLeq(a, b) == NameRank(a.name) <= NameRank(b.name)

Model(id, name, architecture) ==
    [t |-> "object", id |-> id, name |-> name, architecture |-> architecture]
Architecture(mods) == [t |-> "object", output_modalities |-> mods]

Architectures ==
    {Absent, Architecture(Absent)}
    \cup {Architecture(JArr(m)) :
            m \in {<<"text">>, <<"image">>, <<"text", "image">>, <<"audio">>}}
ModelPool ==
    {Model(id, name, arch) : id \in {"a", "b"}, name \in {"Alpha", "Zeta"},
                             arch \in Architectures}

RECURSIVE SeqsUpTo(_, _)
SeqsUpTo(S, n) ==
    IF n = 0 THEN {<<>>}
    ELSE LET shorter == SeqsUpTo(S, n - 1)
         IN  shorter \cup {Append(q, x) : q \in shorter, x \in S}

ModelsReply(data) == [t |-> "object", data |-> data]
ModelsReplies ==
    {JNull, NotJson, ModelsReply(Absent), ModelsReply(JStr(Ch("x")))}
    \cup {ModelsReply(JArr(ms)) : ms \in SeqsUpTo(ModelPool, MaxModels)}

ModelsResponses ==
    {NetworkError} \cup FailedResponses
    \cup {HttpResponse(200, rd, Body("<reply>", j)) : rd \in BOOLEAN, j \in ModelsReplies}

\* typeof v
TypeOf(v) ==
    CASE v.t = "undefined" -> "undefined"
      [] v.t = "string" -> "string"
      [] v.t = "number" -> "number"
      [] OTHER -> "object"

\* model.architecture?.output_modalities || []
OutputModalities(model) ==
    LET declared == Get(Get(model, "architecture"), "output_modalities")
    IN  IF Truthy(declared) THEN declared.a ELSE <<>>

\* Array.prototype.includes
Includes(a, x) == \E i \in 1..Len(a) : a[i] = x

\* the branch of the loop body that pushes to categorized.image
InImageBucket(model) == Includes(OutputModalities(model), "image")
\* the "else if" branch that pushes to categorized.text
InTextBucket(model) ==
    ~Includes(OutputModalities(model), "image") /\ Includes(OutputModalities(model), "text")

\* Array.prototype.sort is stable: an element goes after the ones not above it
RECURSIVE InsertByName(_, _)
InsertByName(m, sorted) ==
    IF sorted = <<>> THEN <<m>>
    ELSE IF LocaleLeq(sorted[Len(sorted)], m) THEN Append(sorted, m)
    ELSE Append(InsertByName(m, SubSeq(sorted, 1, Len(sorted) - 1)), sorted[Len(sorted)])

RECURSIVE SortByName(_)
SortByName(ms) ==
    IF ms = <<>> THEN <<>>
    ELSE InsertByName(ms[Len(ms)], SortByName(SubSeq(ms, 1, Len(ms) - 1)))

\* the loop over models and the two sorts: lines 66-92
Categorize(models) ==
    [text |-> SortByName(SelectSeq(models, InTextBucket)),
     image |-> SortByName(SelectSeq(models, InImageBucket))]

\* listModels after "await fetch": lines 43-92
listModelsSettle(res) ==
    IF res.net = "failed" THEN Rejected(FetchFailed)
    ELSE IF ~Ok(res) THEN
        LET text == IF res.readable THEN res.body.text ELSE ""
        IN  IF text # ""
            THEN Rejected(Err(<<"OpenRouter models API failed: ",
                                ToString(res.status), " - ", text>>))
            ELSE Rejected(Err(<<"OpenRouter models API failed: ", ToString(res.status)>>))
    ELSE IF ~res.readable \/ res.body.parsed = NotJson THEN
        Rejected(Err(<<"OpenRouter models API returned invalid JSON: ", "Unexpected token">>))
    ELSE IF res.body.parsed = JNull THEN Rejected(NullDereference)
    ELSE
        LET data == Get(res.body.parsed, "data")
        IN  IF ~Truthy(data) \/ data.t # "array"
            THEN Rejected(Err(<<"OpenRouter models API returned invalid response format: expected data array, got ",
                                TypeOf(data)>>))
            ELSE Resolved([models |-> Categorize(data.a)])

\* listModels up to "await fetch": lines 18-41
listModelsCall ==
    /\ pc = "idle"
    /\ request' = [op |-> "listModels", model |-> Absent]
    /\ IF MissingCredential(config)
       THEN /\ outcome' = Rejected(MissingKey)
            /\ pc' = "done"
            /\ UNCHANGED fetchLog
       ELSE /\ fetchLog' = Append(fetchLog, Fetch("GET", ModelsEndpoint, "listing", config.apiKey, Absent))
            /\ pc' = "listModels:fetch"
            /\ UNCHANGED outcome
    /\ UNCHANGED <<config, response, download, frame>>
    /\ UNCHANGED <<clientVars, calls, appVars>>

listModelsResume ==
    /\ pc = "listModels:fetch"
    /\ \E res \in ModelsResponses :
        /\ response' = res
        /\ outcome' = listModelsSettle(res)
    /\ pc' = "done"
    /\ UNCHANGED <<config, request, fetchLog, download, frame>>
    /\ UNCHANGED <<clientVars, calls, appVars>>

-----------------------------------------------------------------------------
(* utils: decodeBase64ToArrayBuffer, on a runtime that has globalThis.atob *)

RECURSIVE CountOf(_, _)
CountOf(s, c) ==
    IF s = <<>> THEN 0
    ELSE (IF Head(s).c = c THEN Head(s).n ELSE 0) + CountOf(Tail(s), c)

\* how many "=" the string ends with
RECURSIVE TrailingPad(_)
TrailingPad(s) ==
    IF s = <<>> \/ s[Len(s)].c # "=" THEN 0
    ELSE s[Len(s)].n + TrailingPad(SubSeq(s, 1, Len(s) - 1))

Min(a, b) == IF a <= b THEN a ELSE b

\* atob(b64): white space is dropped; one or two "=" close a string whose
\* length is a multiple of 4; what is left must be base64 characters and
\* must not have length 1 modulo 4; every 4 characters give 3 bytes
\* the "=" that close a string of len characters
Padding(data, len) == IF len % 4 = 0 THEN Min(TrailingPad(data), 2) ELSE 0

\* the binary string of data without white space, rest characters of it
\* before the padding
BinaryString(data, pad, rest) ==
    IF /\ CountOf(data, "=") = pad
       /\ \A i \in 1..Len(data) : data[i].c \in Base64Alphabet \cup {"="}
       /\ rest % 4 # 1
    THEN [ok |-> TRUE, length |-> (rest * 6) \div 8]
    ELSE [ok |-> FALSE, length |-> 0]

Unpadded(data, len) == BinaryString(data, Padding(data, len), len - Padding(data, len))

Forgiving(data) == Unpadded(data, StrLen(data))

Atob(b64) == Forgiving(StripWhiteSpace(b64))

\* bytes.buffer of the Uint8Array filled from the binary string, one byte
\* for each character
BufferOf(binary) == [ok |-> binary.ok, byteLength |-> binary.length]

\* ok is FALSE when atob throws
decodeBase64ToArrayBuffer(b64) == BufferOf(Atob(b64))

-----------------------------------------------------------------------------
(* The regular expressions of the image service *)

\* the index of the first run at or after i whose token is in C, or
\* Len(s) + 1
RECURSIVE FirstFrom(_, _, _)
FirstFrom(s, i, C) ==
    IF i > Len(s) THEN Len(s) + 1
    ELSE IF s[i].c \in C THEN i
    ELSE FirstFrom(s, i + 1, C)

\* the tokens that begin with ";"
Semicolons == {";", ";base64,"}

\* /data:image\/([^;]+);base64,(.+)/ tried with "data:image/" at run i:
\* group 1 runs to the first ";", which must open ";base64,"; group 2 is
\* what follows up to the first line terminator, and is not empty
Groups(s, i, semi, stop) ==
    [ok |-> /\ i <= Len(s) /\ s[i].c = "data:image/"
            /\ semi > i + 1 /\ semi <= Len(s) /\ s[semi].c = ";base64,"
            /\ stop > semi + 1,
     subtype |-> SubSeq(s, i + 1, semi - 1),
     payload |-> SubSeq(s, semi + 1, stop - 1)]

PayloadFrom(s, i, semi) == Groups(s, i, semi, FirstFrom(s, semi + 1, LineTerminators))

DataUrlMatchAt(s, i) == PayloadFrom(s, i, FirstFrom(s, i + 1, Semicolons))

\* String.prototype.match: the leftmost position where the expression matches
Leftmost(s, starts) ==
    IF starts = {} THEN [ok |-> FALSE, subtype |-> <<>>, payload |-> <<>>]
    ELSE DataUrlMatchAt(s, CHOOSE i \in starts : \A j \in starts : i <= j)

DataUrlMatch(s) == Leftmost(s, {i \in 1..Len(s) : DataUrlMatchAt(s, i).ok})

\* /data:image\/([^;]+)/: group 1 of the leftmost match
MimeMatch(s) ==
    LET starts == {i \in 1..Len(s) :
                     s[i].c = "data:image/" /\ i < Len(s) /\ s[i + 1].c \notin Semicolons}
        i == CHOOSE k \in starts : \A j \in starts : k <= j
    IN  IF starts = {} THEN [ok |-> FALSE, subtype |-> <<>>]
        ELSE [ok |-> TRUE,
              subtype |-> SubSeq(s, i + 1, FirstFrom(s, i + 1, Semicolons) - 1)]

\* /^[A-Za-z0-9+/=]+$/.test(content.replace(/\s/g, ""))
LooksLikeBase64(content) ==
    LET data == StripWhiteSpace(content)
    IN  /\ StrLen(data) > 0
        /\ \A i \in 1..Len(data) : data[i].c \in Base64Alphabet \cup {"="}

\* `image/${subtype}` and the default type
ImageType(subtype) == <<R("image/", 1)>> \o subtype
ImagePng == ImageType(<<R("p", 1), R("n", 1), R("g", 1)>>)

\* new Blob([arr], { type })
Blob(size, type) == [size |-> size, type |-> type]

-----------------------------------------------------------------------------
(* OpenRouterImageService: reply normalisation *)

ImageModelRequired ==
    Err(<<"OpenRouter image model is required but was not provided or is invalid">>)

\* how a stretch of generateImage ends: it returns an image, throws, reaches
\* an "await fetch(url)", or falls through to the code after it
Return(blob, shape) == [k |-> "return", blob |-> blob, shape |-> shape]
Throw(error, shape) == [k |-> "throw", error |-> error, shape |-> shape]
AwaitFetch(url, shape) == [k |-> "fetch", url |-> url, shape |-> shape]
FallThrough == [k |-> "null", shape |-> 0]

IsHttp(url) == StartsWith(url, "http://") \/ StartsWith(url, "https://")

\* "if (blob) return blob": what a stretch gave unless it fell through, and
\* then what the code after it gives
OrElse(step, after) == IF step.k # "null" THEN step ELSE after

\* new Blob([decodeBase64ToArrayBuffer(b64)], { type }), returned; the
\* decoding may throw
NewBlob(arr, type, shape) ==
    IF arr.ok THEN Return(Blob(arr.byteLength, type), shape)
    ELSE Throw(InvalidCharacterError, shape)

\* "if (base64Match)" with the Blob made of group 2 under the given type
IfMatched(base64Match, type, shape) ==
    IF base64Match.ok
    THEN NewBlob(decodeBase64ToArrayBuffer(base64Match.payload), type, shape)
    ELSE FallThrough

\* the Blob typed by group 1 of the same match
TypedByMatch(base64Match, shape) ==
    IfMatched(base64Match, ImageType(base64Match.subtype), shape)

\* the data-URL branch shared by parseImageUrl (lines 448-455) and the
\* "image" part of multipart content (lines 275-287)
decodeDataUrl(url, shape) ==
    IF StartsWith(url, "data:image/") THEN TypedByMatch(DataUrlMatch(url), shape)
    ELSE FallThrough

\* parseImageUrl up to its "await fetch": lines 446-459
parseImageUrl(imageUrl, shape) ==
    OrElse(decodeDataUrl(imageUrl, shape),
           IF IsHttp(imageUrl) THEN AwaitFetch(imageUrl, shape) ELSE FallThrough)

\* x.image_url?.url
UrlOf(x) == Get(Get(x, "image_url"), "url")

\* the loop over message.images: lines 250-258
RECURSIVE scanImages(_, _)
scanImages(images, i) ==
    IF i > Len(images) THEN FallThrough
    ELSE OrElse(IF images[i].type = "image_url" /\ Truthy(UrlOf(images[i]))
                THEN parseImageUrl(UrlOf(images[i]).s, 1)
                ELSE FallThrough,
                scanImages(images, i + 1))

\* the loop over the parts of multipart content: lines 264-290
RECURSIVE scanParts(_, _)
scanParts(content, i) ==
    IF i > Len(content) THEN FallThrough
    ELSE OrElse(IF content[i].type = "image_url" /\ Truthy(UrlOf(content[i]))
                THEN parseImageUrl(UrlOf(content[i]).s, 2)
                ELSE IF /\ content[i].type = "image" /\ Truthy(Get(content[i], "image"))
                        /\ Get(content[i], "image").t = "string"
                THEN decodeDataUrl(Get(content[i], "image").s, 2)
                ELSE FallThrough,
                scanParts(content, i + 1))

MinContentLength == 100
MinImageBytes == 100
MaxImageBytes == 10485760

\* mimeType of string content: lines 321-322
MimeType(mimeMatch) == IF mimeMatch.ok THEN ImageType(mimeMatch.subtype) ELSE ImagePng

\* a mutation: what the decoding throws is not caught, and any size passes
PlainBase64Unguarded(arr) ==
    IF arr.ok THEN Return(Blob(arr.byteLength, ImagePng), 3)
    ELSE Throw(InvalidCharacterError, 3)

\* the try block of bare base64 content, whose catch swallows what the
\* decoding throws: lines 332-344
PlainBase64(arr) ==
    IF arr.ok /\ arr.byteLength > MinImageBytes /\ arr.byteLength < MaxImageBytes
    THEN Return(Blob(arr.byteLength, ImagePng), 3)
    ELSE FallThrough

\* string content: lines 293-345
stringContent(content) ==
    IF IsHttp(content) THEN AwaitFetch(content, 3)
    ELSE OrElse(IF StartsWith(content, "data:image/")
                THEN IfMatched(DataUrlMatch(content), MimeType(MimeMatch(content)), 3)
                ELSE FallThrough,
                IF StrLen(content) > MinContentLength /\ LooksLikeBase64(content)
                THEN PlainBase64(decodeBase64ToArrayBuffer(content))
                ELSE FallThrough)

\* message.image_url: lines 348-373
messageImageUrl(message) ==
    LET field == Get(message, "image_url")
        imgUrl == IF field.t = "string" THEN field ELSE Get(field, "url")
    IN  IF Truthy(field) /\ Truthy(imgUrl) THEN AwaitFetch(imgUrl.s, 4) ELSE FallThrough

\* json.data[0]: lines 376-405
FromDatum(first) ==
    IF ~Truthy(first) THEN FallThrough
    ELSE IF Truthy(Get(first, "b64_json"))
    THEN NewBlob(decodeBase64ToArrayBuffer(Get(first, "b64_json").s), ImagePng, 5)
    ELSE IF Truthy(Get(first, "url")) THEN AwaitFetch(Get(first, "url").s, 5)
    ELSE FallThrough

firstData(json) == FromDatum(First(Get(json, "data")))

\* the keys of an object: Object.keys(v || {})
Keys(v) == IF v.t = "object" THEN {f \in DOMAIN v \ {"t"} : v[f] # Absent} ELSE {}

\* a mutation: no length is reported
NoLength(v) == Absent

\* v?.length
LengthOf(v) ==
    CASE v.t = "array" -> JNum(Len(v.a))
      [] v.t = "string" -> JNum(StrLen(v.s))
      [] OTHER -> Absent

\* responseSummary: lines 408-430
responseSummary(json, message, model) ==
    [model |-> Or(Get(json, "model"), model),
     requestedModel |-> model,
     hasChoices |-> Truthy(Get(json, "choices")),
     choicesLength |-> LengthOf(Get(json, "choices")),
     hasData |-> Truthy(Get(json, "data")),
     dataLength |-> LengthOf(Get(json, "data")),
     topLevelKeys |-> Keys(json),
     messageKeys |-> Keys(message),
     hasImages |-> Truthy(Get(message, "images")),
     imagesLength |-> IF Get(message, "images").t = "array"
                      THEN LengthOf(Get(message, "images")) ELSE Absent,
     firstChoiceContentType |-> TypeOf(Get(message, "content")),
     firstChoiceContentIsArray |-> Get(message, "content").t = "array",
     firstChoiceContentLength |-> IF Get(message, "content").t = "string"
                                  THEN LengthOf(Get(message, "content")) ELSE Absent]

\* what the code of one reply shape does with the reply: 1 message.images,
\* 2 multipart content, 3 string content, 4 message.image_url, 5 data[0]
tryShape(k, json, message) ==
    LET images == Get(message, "images")
        content == Get(message, "content")
    IN  CASE k = 1 -> IF Truthy(images) /\ images.t = "array"
                      THEN scanImages(images.a, 1) ELSE FallThrough
          [] k = 2 -> IF Truthy(content) /\ content.t = "array"
                      THEN scanParts(content.a, 1) ELSE FallThrough
          [] k = 3 -> IF Truthy(content) /\ content.t = "string"
                      THEN stringContent(content.s) ELSE FallThrough
          [] k = 4 -> messageImageUrl(message)
          [] k = 5 -> firstData(json)

\* a mutation: data[0] is consulted before message.image_url
ShapeOrderSwapped == <<1, 2, 3, 5, 4>>

\* the order in which the shapes follow one another in the code
ShapeOrder == <<1, 2, 3, 4, 5>>

RECURSIVE firstSuccess(_, _, _)
firstSuccess(i, json, message) ==
    IF i > Len(ShapeOrder) THEN FallThrough
    ELSE OrElse(tryShape(ShapeOrder[i], json, message), firstSuccess(i + 1, json, message))

\* the walk over the reply shapes, ending in the diagnostic: lines 248-440
normalize(json, message, model, status) ==
    OrElse(firstSuccess(1, json, message),
           Throw(ErrWith(<<"OpenRouter image response missing image data. Response structure: ",
                           "<responseSummaryStr>">>,
                         responseSummary(json, message, model), status), 0))

-----------------------------------------------------------------------------
(* OpenRouterImageService: the replies and downloads of the environment *)

Png == <<R("p", 1), R("n", 1), R("g", 1)>>
Jpeg == <<R("j", 1)>>
DataUrl(subtype, payload) ==
    <<R("data:image/", 1)>> \o subtype \o <<R(";base64,", 1)>> \o payload
\* "QQ==" decodes to one byte
OneByte == <<R("Q", 2), R("=", 2)>>
HttpsUrl == <<R("https://", 1), R("x", 1)>>
FtpUrl == <<R("f", 1), R("x", 1)>>
\* a string of base64 characters long enough to be taken for an image, and
\* one whose length atob refuses
LongBase64 == <<R("Q", 200)>>
BadLongBase64 == <<R("Q", 201)>>
\* bare base64 that decodes to 78 bytes, to exactly 100 bytes, and to two
\* bytes more than 10 MiB
ShortBase64 == <<R("Q", 104)>>
EdgeBase64 == <<R("Q", 134), R("=", 2)>>
HugeBase64 == <<R("Q", 13981016)>>

UrlObj(url) == [t |-> "object", url |-> JStr(url)]
Entry(type, image_url) == [t |-> "object", type |-> type, image_url |-> image_url]
Part(type, image_url, image) ==
    [t |-> "object", type |-> type, image_url |-> image_url, image |-> image]
Datum(b64_json, url) == [t |-> "object", b64_json |-> b64_json, url |-> url]

EntryPool ==
    { Entry("text", Absent),
      Entry("image_url", UrlObj(DataUrl(Jpeg, OneByte))),
      Entry("image_url", UrlObj(HttpsUrl)),
      Entry("image_url", UrlObj(FtpUrl)) }

ImagesFields ==
    {Absent} \cup {JArr(es) : es \in SeqsUpTo(EntryPool, MaxEntries)}

ContentFields ==
    { Absent,
      JStr(<<R("h", 1), R("i", 1)>>),
      JStr(HttpsUrl),
      JStr(DataUrl(Png, OneByte)),
      JStr(LongBase64),
      JStr(BadLongBase64),
      JStr(ShortBase64),
      JStr(EdgeBase64),
      JStr(HugeBase64),
      JArr(<<Part("text", Absent, Absent)>>),
      JArr(<<Part("image_url", UrlObj(HttpsUrl), Absent)>>),
      JArr(<<Part("image", Absent, JStr(DataUrl(Png, OneByte)))>>) }

ImageUrlFields == {Absent, JStr(HttpsUrl), UrlObj(HttpsUrl)}

DataFields ==
    { Absent,
      JArr(<<Datum(JStr(OneByte), Absent)>>),
      JArr(<<Datum(Absent, JStr(HttpsUrl))>>) }

\* replies that may match several shapes at once
MixedReplies ==
    {JObj(JStr(Ch("u")), JArr(<<Choice(Message(i, c, u))>>), d) :
        i \in ImagesFields, c \in ContentFields,
        u \in ImageUrlFields, d \in DataFields}

\* replies that carry one data URL in message.images, over every payload
PayloadTokens == {R("Q", 1), R("=", 1), R("LF", 1)}
Payloads == SeqsUpTo(PayloadTokens, MaxPayloadLen)
DataUrlReply(model, subtype, payload) ==
    JObj(model,
         JArr(<<Choice(Message(JArr(<<Entry("image_url", UrlObj(DataUrl(subtype, payload)))>>),
                               Absent, Absent))>>),
         Absent)
DataUrlReplies ==
    {DataUrlReply(m, sub, p) : m \in ReplyModels, sub \in {Png, Jpeg, <<>>}, p \in Payloads}

ImageReplies ==
    {NotJson, JNull, JObj(Absent, Absent, Absent), JObj(Absent, JArr(<<>>), Absent)}
    \cup MixedReplies \cup DataUrlReplies

ImageResponses ==
    {NetworkError} \cup FailedResponses
    \cup {HttpResponse(200, FALSE, Body("<reply>", NotJson))}
    \cup {HttpResponse(200, TRUE, Body("<reply>", j)) : j \in ImageReplies}

\* the response to the download of an image: its status, whether its body
\* can be read, the text of an error body, the byte length of the image and
\* its content-type header (Absent when the header is missing)
Download(net, status, readable, text, bytes, contentType) ==
    [net |-> net, status |-> status, readable |-> readable, text |-> text,
     bytes |-> bytes, contentType |-> contentType]
NoDownload == Download("none", 0, FALSE, "", 0, Absent)
Downloads ==
    {Download("failed", 0, FALSE, "", 0, Absent)}
    \cup {Download("ok", 404, rd, "Not Found", 0, Absent) : rd \in BOOLEAN}
    \cup {Download("ok", 200, FALSE, "", 0, Absent)}
    \cup {Download("ok", 200, TRUE, "", n, ct) :
            n \in {0, 7}, ct \in {Absent, JStr(ImageType(Jpeg))}}

ImageRequests ==
    [op : {"generateImage"},
     model : {Absent, JNum(5), JStr(Ch("SP")), JStr(<<R("SP", 1), R("o", 1), R("SP", 1)>>)}]

-----------------------------------------------------------------------------
(* OpenRouterImageService: generateImage *)

\* a mutation: the body is attached as it was received
rawBody(body) == body.text

\* errorDetails: the body, re-serialised when it parses as JSON (lines 191-197)
errorDetails(body) ==
    IF body.parsed # NotJson THEN Stringify2(body.parsed) ELSE body.text

\* generateImage from "await response.text()" to its first return, throw
\* or download: lines 188-440
generateImageStep(res, model) ==
    IF res.net = "failed" THEN Throw(FetchFailed, 0)
    ELSE IF ~res.readable THEN Throw(BodyReadFailed, 0)
    ELSE IF ~Ok(res) THEN
        Throw(ErrWith(<<"OpenRouter image generation failed: ",
                        ToString(res.status), " ", res.statusText>>,
                      errorDetails(res.body), res.status), 0)
    ELSE IF res.body.parsed = NotJson THEN
        Throw(ErrWith(<<"OpenRouter image generation returned invalid JSON. Response: ",
                        res.body.text>>,
                      res.body.text, res.status), 0)
    ELSE
        LET json == res.body.parsed
            message == Get(First(Get(json, "choices")), "message")
        IN  IF ~Truthy(message)
            THEN Throw(ErrWith(<<"OpenRouter image response missing message field">>,
                               [hasChoices |-> Truthy(Get(json, "choices")),
                                choicesLength |-> LengthOf(Get(json, "choices")),
                                topLevelKeys |-> Keys(json)],
                               res.status), 0)
            ELSE normalize(json, message, model, res.status)

\* a mutation: the header is ignored
AlwaysPng(imgRes) == ImagePng

\* imgRes.headers.get("content-type") ?? "image/png"
contentTypeOf(imgRes) ==
    IF imgRes.contentType = Absent THEN ImagePng ELSE imgRes.contentType.s

\* a mutation: the status of the download is not looked at
downloadSettleAnyStatus(imgRes, json, model) ==
    IF imgRes.net = "failed" THEN Rejected(FetchFailed)
    ELSE IF ~imgRes.readable THEN Rejected(BodyReadFailed)
    ELSE Resolved([image |-> Blob(imgRes.bytes, contentTypeOf(imgRes)),
                   model |-> Or(Get(json, "model"), model)])

\* the code after "await fetch(imageUrl)": lines 460-473, and the same
\* lines at 297-313, 355-371 and 387-403
downloadSettle(imgRes, json, model) ==
    IF imgRes.net = "failed" THEN Rejected(FetchFailed)
    ELSE IF ~Ok(imgRes) THEN
        IF ~imgRes.readable THEN Rejected(BodyReadFailed)
        ELSE Rejected(ErrWith(<<"Failed to download image from URL: ",
                                ToString(imgRes.status)>>,
                              imgRes.text, imgRes.status))
    ELSE IF ~imgRes.readable THEN Rejected(BodyReadFailed)
    ELSE Resolved([image |-> Blob(imgRes.bytes, contentTypeOf(imgRes)),
                   model |-> Or(Get(json, "model"), model)])

\* the sizes and dimensions of the requests whose body is looked at
Size(name) == JStr(Ch(name))
TargetSizes == {Absent, Size("256x256"), Size("1024x1792")}
Dimensions == {Absent, JNum(0), JNum(512), JNum(1024)}
FullImageRequests ==
    [op : {"generateImage"}, model : {Absent, JStr(Ch("m"))},
     targetSize : TargetSizes, width : Dimensions, height : Dimensions]

\* request.width && request.height
BothDimensions(req) == Truthy(Field(req, "width")) /\ Truthy(Field(req, "height"))

\* the size by the dimensions alone: lines 117-123
sizeByDimensions(width, height) ==
    IF width = height THEN Size("1024x1024")
    ELSE IF width.n > height.n THEN Size("1792x1024")
    ELSE Size("1024x1792")

\* a mutation: the dimensions are looked at before targetSize
dimensionsFirst(req) ==
    IF BothDimensions(req)
    THEN sizeByDimensions(Field(req, "width"), Field(req, "height"))
    ELSE IF Truthy(Field(req, "targetSize")) THEN Field(req, "targetSize")
    ELSE Size("1024x1024")

\* size: lines 113-124
imageSize(req) ==
    IF Truthy(Field(req, "targetSize")) THEN Field(req, "targetSize")
    ELSE IF BothDimensions(req)
    THEN sizeByDimensions(Field(req, "width"), Field(req, "height"))
    ELSE Size("1024x1024")

\* requestBody as JSON.stringify sends it: lines 135-159.  The prompt of
\* its one message is not modelled, and no model of the requests names
\* DALL-E 3, which alone adds quality and style
imageBody(req, model) ==
    Defined([t |-> "object",
             model |-> model,
             modalities |-> JArr(<<Text("image"), Text("text")>>),
             stream |-> JBool(FALSE),
             width |-> IF BothDimensions(req) THEN Field(req, "width") ELSE Absent,
             height |-> IF BothDimensions(req) THEN Field(req, "height") ELSE Absent,
             size |-> IF Truthy(imageSize(req)) THEN imageSize(req) ELSE Absent,
             seed |-> Field(req, "seed"),
             steps |-> Field(req, "steps"),
             guidance_scale |-> Field(req, "guidance")])

\* generateImage up to "await fetch(endpoint)", on one of the requests
\* given: lines 100-186
generateImageWith(requests) ==
    /\ pc = "idle"
    /\ \E req \in requests :
        LET model == resolveModel(req.model, config.defaultImageModel) IN
        /\ request' = req
        /\ IF MissingCredential(config)
           THEN /\ outcome' = Rejected(MissingKey)
                /\ pc' = "done"
                /\ UNCHANGED <<fetchLog, frame>>
           ELSE IF InvalidModel(model)
           THEN /\ outcome' = Rejected(ImageModelRequired)
                /\ pc' = "done"
                /\ UNCHANGED <<fetchLog, frame>>
           ELSE /\ fetchLog' = Append(fetchLog,
                                      WithBody(Fetch("POST", ChatEndpoint, "completion",
                                                     config.apiKey, model),
                                               imageBody(req, model)))
                /\ frame' = [model |-> model]
                /\ pc' = "generateImage:fetch"
                /\ UNCHANGED outcome
    /\ UNCHANGED <<config, response, download>>
    /\ UNCHANGED <<clientVars, calls, appVars>>

generateImageCall == generateImageWith(ImageRequests)

generateImageResume ==
    /\ pc = "generateImage:fetch"
    /\ \E res \in ImageResponses :
        LET step == generateImageStep(res, frame.model) IN
        /\ response' = res
        /\ frame' = [model |-> frame.model, shape |-> step.shape]
        /\ CASE step.k = "return" ->
                  /\ outcome' = Resolved([image |-> step.blob,
                                          model |-> Or(Get(res.body.parsed, "model"),
                                                       frame.model)])
                  /\ pc' = "done"
                  /\ UNCHANGED fetchLog
             [] step.k = "throw" ->
                  /\ outcome' = Rejected(step.error)
                  /\ pc' = "done"
                  /\ UNCHANGED fetchLog
             [] step.k = "fetch" ->
                  /\ fetchLog' = Append(fetchLog, Fetch("GET", step.url, "download", "", Absent))
                  /\ pc' = "generateImage:download"
                  /\ UNCHANGED outcome
    /\ UNCHANGED <<config, request, download>>
    /\ UNCHANGED <<clientVars, calls, appVars>>

\* a mutation: a download that fails is asked for again
generateImageDownloadedAgain ==
    /\ pc = "generateImage:download"
    /\ \E imgRes \in Downloads :
        /\ download' = imgRes
        /\ IF imgRes.net = "ok" /\ ~Ok(imgRes)
           THEN /\ fetchLog' = Append(fetchLog, fetchLog[Len(fetchLog)])
                /\ UNCHANGED <<pc, outcome>>
           ELSE /\ outcome' = downloadSettle(imgRes, response.body.parsed, frame.model)
                /\ pc' = "done"
                /\ UNCHANGED fetchLog
    /\ UNCHANGED <<config, request, response, frame>>
    /\ UNCHANGED <<clientVars, calls, appVars>>

generateImageDownloaded ==
    /\ pc = "generateImage:download"
    /\ \E imgRes \in Downloads :
        /\ download' = imgRes
        /\ outcome' = downloadSettle(imgRes, response.body.parsed, frame.model)
    /\ pc' = "done"
    /\ UNCHANGED <<config, request, fetchLog, response, frame>>
    /\ UNCHANGED <<clientVars, calls, appVars>>

-----------------------------------------------------------------------------
(* OpenRouterClient and createOpenRouterClient *)

\* Configuration objects are compared by identity: an object is known by a
\* reference ("caller": the one the caller made; "client": the client's
\* this.config; "returned": the one getConfig returned), and a write through
\* a reference changes what every holder of that reference reads.

\* a mutation: no copy is made, the same object is kept
NoSpread(ref, fresh) == ref

\* { ...object }: a new object with the same properties
ObjectSpread(ref, fresh) == fresh

\* object.f = v through reference ref, as seen by the holder of objRef
Written(obj, objRef, ref, f, v) == IF objRef = ref THEN [obj EXCEPT ![f] = v] ELSE obj

\* what the caller may write to a configuration object
ConfigWrites ==
    {<<"apiKey", "">>, <<"apiKey", "sk-other">>,
     <<"defaultTextModel", JStr(<<>>)>>, <<"defaultTextModel", JStr(Ch("e"))>>,
     <<"defaultImageModel", JStr(<<>>)>>, <<"defaultImageModel", JStr(Ch("e"))>>}

NoConfig == [apiKey |-> "", defaultTextModel |-> Absent, defaultImageModel |-> Absent]
NoObject == [ref |-> "none", value |-> NoConfig, asReturned |-> NoConfig]
NoError == Err(<<>>)

\* the client: not made, failed in its constructor, or built; given is
\* the configuration as it was when the constructor ran
Client(state, error, thisConfig, given, methods) ==
    [state |-> state, error |-> error, thisConfig |-> thisConfig, given |-> given,
     methods |-> methods]
NoClient == Client("none", NoError, "none", NoConfig, {})
Methods == {"generateImage", "completeText", "listModels", "getConfig"}

\* a mutation: the default text model is looked at before the apiKey
ModelCheckedFirst(cfg) ==
    IF ~Truthy(cfg.defaultTextModel) THEN Err(<<"Default text model is required">>)
    ELSE IF cfg.apiKey = "" THEN Err(<<"OpenRouter API key is required">>)
    ELSE IF ~Truthy(cfg.defaultImageModel) THEN Err(<<"Default image model is required">>)
    ELSE NoError

\* the checks of the constructor: types.ts 238-246
ConstructorError(cfg) ==
    IF cfg.apiKey = "" THEN Err(<<"OpenRouter API key is required">>)
    ELSE IF ~Truthy(cfg.defaultTextModel) THEN Err(<<"Default text model is required">>)
    ELSE IF ~Truthy(cfg.defaultImageModel) THEN Err(<<"Default image model is required">>)
    ELSE NoError

\* createOpenRouterClient(config): new OpenRouterClient(config), whose three
\* services are constructed with this.config
createOpenRouterClient ==
    /\ client.state = "none"
    /\ IF ConstructorError(passed) # NoError
       THEN /\ client' = Client("threw", ConstructorError(passed), "none", passed, {})
            /\ UNCHANGED config
       ELSE /\ client' = Client("built", NoError, ObjectSpread("caller", "client"),
                                passed, Methods)
            /\ config' = passed
    /\ UNCHANGED <<pc, request, fetchLog, response, download, frame, outcome,
                   passed, handed, writes, calls>>
    /\ UNCHANGED appVars

\* client.getConfig()
getConfig ==
    /\ client.state = "built"
    /\ handed' = [ref |-> ObjectSpread(client.thisConfig, "returned"),
                  value |-> config, asReturned |-> config]
    /\ UNCHANGED <<config, pc, request, fetchLog, response, download, frame, outcome,
                   passed, client, writes, calls>>
    /\ UNCHANGED appVars

\* the caller writes a property through reference ref
WriteThrough(ref) ==
    /\ writes < MaxWrites
    /\ \E w \in ConfigWrites :
        /\ passed' = Written(passed, "caller", ref, w[1], w[2])
        /\ config' = Written(config, client.thisConfig, ref, w[1], w[2])
        /\ handed' = [handed EXCEPT
                        !.value = Written(handed.value, handed.ref, ref, w[1], w[2])]
        /\ <<passed', config', handed'>> # <<passed, config, handed>>
    /\ writes' = writes + 1
    /\ UNCHANGED <<pc, request, fetchLog, response, download, frame, outcome, client,
                   calls>>
    /\ UNCHANGED appVars

\* the caller changes the object it passed to the factory
mutatePassed == client.state = "built" /\ WriteThrough("caller")

\* the caller changes the object getConfig returned
mutateReturned ==
    client.state = "built" /\ handed.ref # "none" /\ WriteThrough(handed.ref)

\* the methods of the client hand the request to the service: types.ts 257-279
clientCompleteText == client.state = "built" /\ completeTextCall
clientGenerateImage == client.state = "built" /\ generateImageCall
clientListModels == client.state = "built" /\ listModelsCall

-----------------------------------------------------------------------------
(* Several calls at once on the same services *)

\* before a call: no request object, no locals
NoRequest == [op |-> "none", model |-> Absent]
NoFrame == [model |-> Absent]

\* JavaScript runs one handler at a time and switches between calls only at
\* an await: a call is its own request, locals (frame), responses and
\* promise; the services' configuration is all that the calls have in common.
CallIds == {1, 2}

Call(at, req, fr, fetches, res, dl, out) ==
    [pc |-> at, request |-> req, frame |-> fr, fetches |-> fetches,
     response |-> res, download |-> dl, outcome |-> out]
IdleCall == Call("idle", NoRequest, NoFrame, <<>>, NoResponse, NoDownload, Pending)
NoCalls == [i \in CallIds |-> IdleCall]

\* the call ends
Ended(call, out) == [call EXCEPT !.pc = "done", !.outcome = out]

\* the requests and the upstream answers tried when two calls run at once
ConcurrentRequests ==
    {[op |-> "listModels", model |-> Absent]}
    \cup [op : {"completeText", "generateImage"},
          model : {Absent, JStr(<<R("SP", 1), R("o", 1), R("SP", 1)>>)}]
TextResponsesTried ==
    {NetworkError, HttpResponse(401, TRUE, Body("Invalid API key", NotJson))}
    \cup {HttpResponse(200, TRUE, Body("<reply>", JObj(m, JArr(<<Choice(Message(Absent, c, Absent))>>), Absent))) :
            m \in ReplyModels, c \in {Absent, JStr(Ch("H"))}}
ImageResponsesTried ==
    {HttpResponse(401, TRUE, Body("Invalid API key", NotJson))}
    \cup {HttpResponse(200, TRUE, Body("<reply>", JObj(m, JArr(<<Choice(Message(i, Absent, Absent))>>), Absent))) :
            m \in ReplyModels,
            i \in {Absent, JArr(<<Entry("image_url", UrlObj(HttpsUrl))>>),
                   JArr(<<Entry("image_url", UrlObj(DataUrl(Jpeg, OneByte)))>>)}}
ModelsResponsesTried ==
    {HttpResponse(500, TRUE, Body("", NotJson)),
     HttpResponse(200, TRUE, Body("<reply>", ModelsReply(JArr(<<>>))))}
DownloadsTried ==
    {Download("ok", 404, TRUE, "Not Found", 0, Absent),
     Download("ok", 200, TRUE, "", 7, Absent),
     Download("ok", 200, TRUE, "", 7, JStr(ImageType(Jpeg)))}
ResponsesTried(op) ==
    CASE op = "completeText" -> TextResponsesTried
      [] op = "generateImage" -> ImageResponsesTried
      [] OTHER -> ModelsResponsesTried

\* model.trim() in the body of completeText, model in that of generateImage
Sent(op, model) == IF op = "completeText" THEN JStr(Trim(model.s)) ELSE model

\* the body of the operation's request
requestBody(req, model) ==
    IF req.op = "completeText" THEN textBody(req, model) ELSE imageBody(req, model)

\* the call with the model it resolved, suspended at its fetch
Requesting(call, model, apiKey) ==
    IF InvalidModel(model)
    THEN Ended(call, Rejected(IF call.request.op = "completeText"
                              THEN TextModelRequired ELSE ImageModelRequired))
    ELSE [call EXCEPT !.pc = "fetch", !.frame = [model |-> model],
                      !.fetches = <<WithBody(Fetch("POST", ChatEndpoint, "completion", apiKey,
                                                   Sent(call.request.op, model)),
                                             requestBody(call.request, model))>>]

\* an operation up to its "await fetch"
Started(cfg, req) ==
    IF MissingCredential(cfg) THEN Ended(Call("idle", req, NoFrame, <<>>, NoResponse, NoDownload, Pending),
                                         Rejected(MissingKey))
    ELSE CASE req.op = "completeText" ->
                Requesting(Call("idle", req, NoFrame, <<>>, NoResponse, NoDownload, Pending),
                           resolveModel(req.model, cfg.defaultTextModel), cfg.apiKey)
           [] req.op = "generateImage" ->
                Requesting(Call("idle", req, NoFrame, <<>>, NoResponse, NoDownload, Pending),
                           resolveModel(req.model, cfg.defaultImageModel), cfg.apiKey)
           [] OTHER ->
                Call("fetch", req, NoFrame,
                     <<Fetch("GET", ModelsEndpoint, "listing", cfg.apiKey, Absent)>>,
                     NoResponse, NoDownload, Pending)

\* generateImage after its reply: it returns, throws or awaits a download
Stepped(call, step) ==
    CASE step.k = "return" ->
             Ended(call, Resolved([image |-> step.blob,
                                   model |-> Or(Get(call.response.body.parsed, "model"),
                                                call.frame.model)]))
      [] step.k = "throw" -> Ended(call, Rejected(step.error))
      [] step.k = "fetch" ->
             [call EXCEPT !.pc = "download",
                          !.fetches = Append(call.fetches,
                                             Fetch("GET", step.url, "download", "", Absent))]

\* an operation from the upstream's answer on, with the locals fr
Replied(call, fr, res) ==
    CASE call.request.op = "completeText" ->
             Ended([call EXCEPT !.response = res], completeTextSettle(res, fr.model))
      [] call.request.op = "generateImage" ->
             Stepped([call EXCEPT !.response = res], generateImageStep(res, fr.model))
      [] OTHER -> Ended([call EXCEPT !.response = res], listModelsSettle(res))

\* generateImage from the answer to its download on
Downloaded(call, fr, imgRes) ==
    Ended([call EXCEPT !.download = imgRes],
          downloadSettle(imgRes, call.response.body.parsed, fr.model))

\* the fetches a step of a call issued, in the order of all fetches
Issued(log, before, after) ==
    log \o SubSeq(after.fetches, Len(before.fetches) + 1, Len(after.fetches))

startCall(i) ==
    /\ calls[i].pc = "idle"
    /\ \E req \in ConcurrentRequests :
        /\ calls' = [calls EXCEPT ![i] = Started(config, req)]
        /\ fetchLog' = Issued(fetchLog, calls[i], calls'[i])
    /\ UNCHANGED <<config, pc, request, response, download, frame, outcome,
                   clientVars>>
    /\ UNCHANGED appVars

\* a mutation: the locals are one slot of the service, which the call that
\* started last has overwritten
resumeCallSharedLocals(i) ==
    /\ calls[i].pc = "fetch"
    /\ \E res \in ResponsesTried(calls[i].request.op) :
        /\ calls' = [calls EXCEPT ![i] =
                    Replied(calls[i],
                            IF \E j \in CallIds \ {i} : calls[j].pc # "idle"
                            THEN calls[CHOOSE j \in CallIds \ {i} : calls[j].pc # "idle"].frame
                            ELSE calls[i].frame,
                            res)]
        /\ fetchLog' = Issued(fetchLog, calls[i], calls'[i])
    /\ UNCHANGED <<config, pc, request, response, download, frame, outcome,
                   clientVars>>
    /\ UNCHANGED appVars

resumeCall(i) ==
    /\ calls[i].pc = "fetch"
    /\ \E res \in ResponsesTried(calls[i].request.op) :
        /\ calls' = [calls EXCEPT ![i] = Replied(calls[i], calls[i].frame, res)]
        /\ fetchLog' = Issued(fetchLog, calls[i], calls'[i])
    /\ UNCHANGED <<config, pc, request, response, download, frame, outcome,
                   clientVars>>
    /\ UNCHANGED appVars

downloadedCall(i) ==
    /\ calls[i].pc = "download"
    /\ \E imgRes \in DownloadsTried :
        calls' = [calls EXCEPT ![i] = Downloaded(calls[i], calls[i].frame, imgRes)]
    /\ UNCHANGED <<config, pc, request, fetchLog, response, download, frame, outcome,
                   clientVars>>
    /\ UNCHANGED appVars

-----------------------------------------------------------------------------
(* OpenRouterService: extractKeywords, suggestPhrasing, analyzeKeywordMatch *)

\* The arguments of the service are TLA+ strings, read character by
\* character with Head and Tail.

UpperCase ==
    <<"A", "B", "C", "D", "E", "F", "G", "H", "I", "J", "K", "L", "M",
      "N", "O", "P", "Q", "R", "S", "T", "U", "V", "W", "X", "Y", "Z">>
LowerCase ==
    <<"a", "b", "c", "d", "e", "f", "g", "h", "i", "j", "k", "l", "m",
      "n", "o", "p", "q", "r", "s", "t", "u", "v", "w", "x", "y", "z">>
\* what \w of a regular expression matches
WordChars ==
    {UpperCase[i] : i \in 1..Len(UpperCase)} \cup {LowerCase[i] : i \in 1..Len(LowerCase)}
    \cup {"0", "1", "2", "3", "4", "5", "6", "7", "8", "9", "_"}
Spaces == {" ", "\n", "\t"}

\* String.prototype.toLowerCase
RECURSIVE toLowerCase(_)
toLowerCase(str) ==
    IF str = "" THEN ""
    ELSE (IF \E i \in 1..Len(UpperCase) : UpperCase[i] = Head(str)
          THEN LowerCase[CHOOSE i \in 1..Len(UpperCase) : UpperCase[i] = Head(str)]
          ELSE Head(str))
         \o toLowerCase(Tail(str))

\* the maximal stretches of str whose characters are in C (inside) or are
\* not in C (~inside), in their order; cur is the stretch being read
RECURSIVE Stretches(_, _, _, _)
Stretches(str, C, inside, cur) ==
    IF str = "" THEN (IF cur = "" THEN <<>> ELSE <<cur>>)
    ELSE IF (Head(str) \in C) = inside
    THEN Stretches(Tail(str), C, inside, cur \o Head(str))
    ELSE (IF cur = "" THEN <<>> ELSE <<cur>>) \o Stretches(Tail(str), C, inside, "")

\* [...new Set(words)]: the first occurrence of each word
RECURSIVE Unique(_)
Unique(words) ==
    IF words = <<>> THEN <<>>
    ELSE <<Head(words)>> \o Unique(SelectSeq(Tail(words), LAMBDA w : w # Head(words)))

\* array.slice(0, n)
Slice(a, n) == SubSeq(a, 1, Min(n, Len(a)))

commonWords ==
    {"the", "that", "this", "with", "from", "have", "been", "will", "would", "could",
     "should", "your", "they", "their", "there", "what", "when", "where", "which",
     "about", "these", "those"}

\* simpleKeywordExtraction: lines 207-220; /\b\w{4,}\b/g matches the words of
\* four characters and more
simpleKeywordExtraction(jobPosting) ==
    Slice(SelectSeq(Unique(SelectSeq(Stretches(toLowerCase(jobPosting), WordChars, TRUE, ""),
                                     LAMBDA w : Len(w) >= 4)),
                    LAMBDA w : w \notin commonWords),
          20)

\* String.prototype.includes
StringIncludes(str, part) ==
    \E i \in 0..(Len(str) - Len(part)) : SubSeq(str, i + 1, i + Len(part)) = part

\* the second half of simpleTextMatch: lines 232-237
everyWordIncluded(phraseLower, keywordWords) ==
    IF Len(keywordWords) > 0
    THEN \A i \in 1..Len(keywordWords) : StringIncludes(phraseLower, keywordWords[i])
    ELSE FALSE

\* simpleTextMatch: lines 222-238; the empty strings of split(/\s+/) are
\* dropped by the filter on the length
simpleTextMatch(phrase, keyword) ==
    \/ StringIncludes(toLowerCase(phrase), toLowerCase(keyword))
    \/ everyWordIncluded(toLowerCase(phrase),
                         SelectSeq(Stretches(toLowerCase(keyword), Spaces, FALSE, ""),
                                   LAMBDA w : Len(w) > 3))

\* the placeholder suggestions: lines 96-100 and 147-150
Placeholders(keyword, userExperience) ==
    <<Text("Demonstrated expertise in " \o keyword \o " through "
           \o SubSeq(userExperience, 1, Min(50, Len(userExperience))) \o "..."),
      Text("Successfully applied " \o keyword \o " skills to deliver measurable results."),
      Text("Proven track record in " \o keyword
           \o " with hands-on experience in related technologies.")>>

\* a call of the service: the operation and its arguments
ServiceCall(op, a, b, c) == [op |-> op, a |-> a, b |-> b, c |-> c]
ServiceCalls ==
    {ServiceCall("extractKeywords", jp, "", "") :
        jp \in {"", "Uses SQL with React, react and more SQL_1"}}
    \cup {ServiceCall("suggestPhrasing", "SQL", ux, "Data team") :
        ux \in {"", "Ran the warehouse migration and wrote the reporting queries used daily"}}
    \cup {ServiceCall("analyzeKeywordMatch", ph, kw, "") :
        ph \in {"I use MySQL daily", "Pipelines for data"},
        kw \in {"SQL", "Data Pipelines", "Go"}}

\* what the service returns without the upstream: with no API key (lines
\* 35-39, 93-101, 164-167)
keyMissingFallback(call) ==
    CASE call.op = "extractKeywords" -> [list |-> [i \in 1..Len(simpleKeywordExtraction(call.a)) |->
                                                      Text(simpleKeywordExtraction(call.a)[i])]]
      [] call.op = "suggestPhrasing" -> [list |-> Placeholders(call.a, call.b)]
      [] OTHER -> [flag |-> simpleTextMatch(call.a, call.b)]

\* and after a failure or a reply it cannot use (lines 77-83, 146-157,
\* 198-204): suggestPhrasing then gives the first two placeholders
failureFallback(call) ==
    IF call.op = "suggestPhrasing"
    THEN [list |-> Slice(Placeholders(call.a, call.b), 2)]
    ELSE keyMissingFallback(call)

\* a number with one decimal, in tenths
Tenths(n) == [t |-> "number", n |-> n, unit |-> "1/10"]

\* the request the operation hands to client.completeText
serviceRequest(call) ==
    [op |-> "completeText", model |-> Absent,
     systemPrompt |-> Text("<systemPrompt of " \o call.op \o ">"),
     userPayload |->
        CASE call.op = "extractKeywords" ->
                 [t |-> "object", keys |-> <<"jobPosting">>, jobPosting |-> Text(call.a)]
          [] call.op = "suggestPhrasing" ->
                 [t |-> "object", keys |-> <<"keyword", "userExperience", "jobContext">>,
                  keyword |-> Text(call.a),
                  userExperience |->
                      Text(IF call.b = "" THEN "Relevant professional experience" ELSE call.b),
                  jobContext |-> Text(SubSeq(call.c, 1, Min(500, Len(call.c))))]
          [] OTHER ->
                 [t |-> "object", keys |-> <<"phrase", "keyword">>,
                  phrase |-> Text(call.a), keyword |-> Text(call.b)],
     temperature |-> CASE call.op = "extractKeywords" -> Tenths(3)
                       [] call.op = "suggestPhrasing" -> Tenths(7)
                       [] OTHER -> Tenths(2)]

\* the texts the upstream's model answers with, and JSON.parse of each
Str(v) == JStr(Ch(v))
ModelTexts ==
    {"[\"React\",\"\",5,\"SQL\",\"Go\",\"TS\"]", "{\"keywords\":[\"SQL\",null]}",
     "{\"keywords\":\"SQL\"}", "{\"phrases\":[\"a\",\"b\",\"c\",\"d\"]}",
     "{\"matches\":true}", "{\"matches\":\"yes\"}", "null", "7", "Sure! Here you go"}
JsonParse(text) ==
    CASE text = Ch("[\"React\",\"\",5,\"SQL\",\"Go\",\"TS\"]") ->
             JArr(<<Str("React"), JStr(<<>>), JNum(5), Str("SQL"), Str("Go"), Str("TS")>>)
      [] text = Ch("{\"keywords\":[\"SQL\",null]}") ->
             [t |-> "object", keywords |-> JArr(<<Str("SQL"), JNull>>)]
      [] text = Ch("{\"keywords\":\"SQL\"}") -> [t |-> "object", keywords |-> Str("SQL")]
      [] text = Ch("{\"phrases\":[\"a\",\"b\",\"c\",\"d\"]}") ->
             [t |-> "object", phrases |-> JArr(<<Str("a"), Str("b"), Str("c"), Str("d")>>)]
      [] text = Ch("{\"matches\":true}") -> [t |-> "object", matches |-> JBool(TRUE)]
      [] text = Ch("{\"matches\":\"yes\"}") -> [t |-> "object", matches |-> Str("yes")]
      [] text = Ch("null") -> JNull
      [] text = Ch("7") -> JNum(7)
      [] OTHER -> NotJson

ServiceResponses ==
    {NetworkError, HttpResponse(500, TRUE, Body("", NotJson)),
     HttpResponse(200, TRUE, Body("<reply>", JObj(Absent, JArr(<<>>), Absent)))}
    \cup {HttpResponse(200, TRUE,
                       Body("<reply>",
                            JObj(Absent, JArr(<<Choice(Message(Absent, Str(text), Absent))>>),
                                 Absent))) : text \in ModelTexts}

\* how the inner try block ends: it returns a value, throws, or runs to its
\* end
Returned(value) == [k |-> "return", value |-> value]
Thrown == [k |-> "throw"]
RanThrough == [k |-> "end"]

\* filter((k) => typeof k === "string" && k.length > 0)
nonEmptyStrings(a) == SelectSeq(a, LAMBDA k : k.t = "string" /\ StrLen(k.s) > 0)

\* the list the operation takes from the parsed text: the array itself or
\* the array under the key; suggestPhrasing keeps three
listFrom(call, a) ==
    Returned([list |-> IF call.op = "suggestPhrasing" THEN Slice(nonEmptyStrings(a), 3)
                       ELSE nonEmptyStrings(a)])

\* "if (parsed.key && Array.isArray(parsed.key))": reading a property of
\* null throws
listUnder(call, parsed, key) ==
    IF parsed.t = "null" THEN Thrown
    ELSE IF Truthy(Get(parsed, key)) /\ Get(parsed, key).t = "array"
    THEN listFrom(call, Get(parsed, key).a)
    ELSE RanThrough

\* the inner try block: lines 62-72, 127-141, 188-193
parseReply(call, parsed) ==
    IF parsed = NotJson THEN Thrown
    ELSE IF call.op = "analyzeKeywordMatch"
    THEN IF parsed.t = "null" THEN Thrown
         ELSE IF Get(parsed, "matches").t = "boolean"
         THEN Returned([flag |-> Get(parsed, "matches").b])
         ELSE RanThrough
    ELSE IF parsed.t = "array" THEN listFrom(call, parsed.a)
    ELSE listUnder(call, parsed, IF call.op = "extractKeywords" THEN "keywords" ELSE "phrases")

\* a mutation: what the inner try block throws is not caught
innerTryUncaught(step, fallback) ==
    CASE step.k = "return" -> Resolved(step.value)
      [] step.k = "throw" -> Rejected(JsonSyntaxError)
      [] OTHER -> Resolved(fallback)

\* the inner try with its catch, and the fallback after it
innerTry(step, fallback) ==
    IF step.k = "return" THEN Resolved(step.value) ELSE Resolved(fallback)

\* the operation from "await this.client.completeText" on: the outer catch
\* turns a rejection into the fallback
afterCompleteText(call, settled) ==
    IF settled.state = "rejected" THEN Resolved(failureFallback(call))
    ELSE innerTry(parseReply(call, JsonParse(settled.value.text)), failureFallback(call))

Service(env, state, call, result) ==
    [env |-> env, state |-> state, call |-> call, result |-> result]
NoService == Service("", "none", ServiceCall("none", "", "", ""), Pending)

\* the configuration the constructor of the service builds: lines 17-29
serviceConfig(env) ==
    [apiKey |-> IF env = "" THEN "placeholder" ELSE env,
     defaultTextModel |-> Str("openai/gpt-5.2"),
     defaultImageModel |-> Str("google/gemini-2.0-flash-001")]

\* an operation of the service up to its call of the client; without an API
\* key it returns at once
serviceStart ==
    /\ service.state = "idle"
    /\ \E call \in ServiceCalls :
        service' = IF service.env = ""
                   THEN Service(service.env, "done", call, Resolved(keyMissingFallback(call)))
                   ELSE Service(service.env, "calling", call, Pending)
    /\ UNCHANGED <<config, pc, request, fetchLog, response, download, frame, outcome,
                   clientVars, calls, tables, view>>

\* this.client.completeText(request), run by the text service of the client
serviceCompleteText ==
    /\ service.state = "calling"
    /\ client.state = "built"
    /\ completeTextWith({serviceRequest(service.call)})

\* the operation resumed by the promise of completeText
serviceSettle ==
    /\ service.state = "calling"
    /\ pc = "done"
    /\ service' = Service(service.env, "done", service.call,
                          afterCompleteText(service.call, outcome))
    /\ UNCHANGED <<config, pc, request, fetchLog, response, download, frame, outcome,
                   clientVars, calls, tables, view>>

-----------------------------------------------------------------------------
(* Convex: the mutations of jobs, keywords and phrases *)

\* Each mutation is one transaction.  An identifier is the number of the
\* insert that made it and is never issued again; the argument of a mutation
\* may be any identifier issued so far, of a document that is still there or
\* of one that was deleted.  db.patch and db.delete of a document that is
\* not there throw, and the transaction is rolled back.

Mutation(op, id, ok) == [op |-> op, id |-> id, ok |-> ok]
Tables(jobs, keywords, phrases, issued, last, flags) ==
    [jobs |-> jobs, keywords |-> keywords, phrases |-> phrases, issued |-> issued,
     last |-> last, flags |-> flags]
\* flags: only creates ran before the last mutation; markAsMatched was
\* called; a job or a keyword was removed
NoTables ==
    Tables({}, <<>>, <<>>, [jobs |-> 0, keywords |-> 0, phrases |-> 0],
           Mutation("none", 0, TRUE),
           [creating |-> TRUE, marked |-> FALSE, removed |-> FALSE])

Creates == {"none", "jobs.create", "keywords.create", "keywords.createMany", "phrases.create"}

\* the table without the documents ids, and with the document doc under id
Without(table, ids) == [i \in (DOMAIN table) \ ids |-> table[i]]
With(table, id, doc) == [i \in (DOMAIN table) \cup {id} |-> IF i = id THEN doc ELSE table[i]]

\* withIndex("by_job") and withIndex("by_keyword")
byJob(table, jobId) == {i \in DOMAIN table : table[i].jobId = jobId}
byKeyword(table, keywordId) == {i \in DOMAIN table : table[i].keywordId = keywordId}

\* the tables after a mutation that committed, and after one that threw
Committed(jobs, keywords, phrases, issued, op, id, flags) ==
    Tables(jobs, keywords, phrases, issued, Mutation(op, id, TRUE),
           [flags EXCEPT !.creating = tables.flags.creating /\ tables.last.op \in Creates])
RolledBack(op, id) ==
    [tables EXCEPT !.last = Mutation(op, id, FALSE),
                   !.flags.creating = tables.flags.creating /\ tables.last.op \in Creates]

\* a step of the database leaves the rest alone
ConvexFrame ==
    UNCHANGED <<config, pc, request, fetchLog, response, download, frame, outcome,
                clientVars, calls, service, view>>

Keyword(jobId, isMatched) == [jobId |-> jobId, isMatched |-> isMatched]
Phrase(jobId, keywordId, status) == [jobId |-> jobId, keywordId |-> keywordId, status |-> status]

\* jobs.create: jobs.ts 20-40
jobsCreate ==
    /\ tables.issued.jobs < MaxJobs
    /\ tables' = Committed(tables.jobs \cup {tables.issued.jobs + 1}, tables.keywords,
                           tables.phrases,
                           [tables.issued EXCEPT !.jobs = @ + 1],
                           "jobs.create", tables.issued.jobs + 1, tables.flags)
    /\ ConvexFrame

\* n keywords of the job inserted one after another
RECURSIVE InsertKeywords(_, _, _, _)
InsertKeywords(keywords, next, n, jobId) ==
    IF n = 0 THEN keywords
    ELSE InsertKeywords(With(keywords, next, Keyword(jobId, FALSE)), next + 1, n - 1, jobId)

\* keywords.create: keywords.ts 14-29
keywordsCreate ==
    /\ tables.issued.keywords < MaxKeywords
    /\ \E jobId \in 1..tables.issued.jobs :
        tables' = Committed(tables.jobs,
                            InsertKeywords(tables.keywords, tables.issued.keywords + 1, 1, jobId),
                            tables.phrases,
                            [tables.issued EXCEPT !.keywords = @ + 1],
                            "keywords.create", tables.issued.keywords + 1, tables.flags)
    /\ ConvexFrame

\* keywords.createMany: keywords.ts 31-51
keywordsCreateMany ==
    /\ \E jobId \in 1..tables.issued.jobs, n \in 0..(MaxKeywords - tables.issued.keywords) :
        tables' = Committed(tables.jobs,
                            InsertKeywords(tables.keywords, tables.issued.keywords + 1, n, jobId),
                            tables.phrases,
                            [tables.issued EXCEPT !.keywords = @ + n],
                            "keywords.createMany", jobId, tables.flags)
    /\ ConvexFrame

\* keywords.markAsMatched: keywords.ts 53-60
markAsMatched ==
    /\ \E id \in 1..tables.issued.keywords, isMatched \in BOOLEAN :
        tables' = IF id \in DOMAIN tables.keywords
                  THEN Committed(tables.jobs,
                                 [tables.keywords EXCEPT ![id].isMatched = isMatched],
                                 tables.phrases, tables.issued, "keywords.markAsMatched", id,
                                 [tables.flags EXCEPT !.marked = TRUE])
                  ELSE RolledBack("keywords.markAsMatched", id)
    /\ ConvexFrame

\* keywords.remove: keywords.ts 62-77
keywordsRemove ==
    /\ \E id \in 1..tables.issued.keywords :
        tables' = IF id \in DOMAIN tables.keywords
                  THEN Committed(tables.jobs, Without(tables.keywords, {id}),
                                 Without(tables.phrases, byKeyword(tables.phrases, id)),
                                 tables.issued, "keywords.remove", id,
                                 [tables.flags EXCEPT !.removed = TRUE])
                  ELSE RolledBack("keywords.remove", id)
    /\ ConvexFrame

\* the phrases of the keywords given: the inner loop of jobs.remove
phrasesOf(phrases, keywordIds) == {i \in DOMAIN phrases : phrases[i].keywordId \in keywordIds}

\* jobs.remove: jobs.ts 65-88
jobsRemove ==
    /\ \E id \in 1..tables.issued.jobs :
        tables' = IF id \in tables.jobs
                  THEN Committed(tables.jobs \ {id},
                                 Without(tables.keywords, byJob(tables.keywords, id)),
                                 Without(tables.phrases,
                                         phrasesOf(tables.phrases, byJob(tables.keywords, id))),
                                 tables.issued, "jobs.remove", id,
                                 [tables.flags EXCEPT !.removed = TRUE])
                  ELSE RolledBack("jobs.remove", id)
    /\ ConvexFrame

\* the keywords after db.patch(keywordId, { isMatched })
Patched(keywords, keywordId, isMatched) == [keywords EXCEPT ![keywordId].isMatched = isMatched]

\* phrases.create: phrases.ts 24-51
phrasesCreate ==
    /\ tables.issued.phrases < MaxPhrases
    /\ \E jobId \in 1..tables.issued.jobs, keywordId \in 1..tables.issued.keywords,
          status \in {"draft", "saved"} :
        tables' = IF status = "saved" /\ keywordId \notin DOMAIN tables.keywords
                  THEN RolledBack("phrases.create", tables.issued.phrases + 1)
                  ELSE Committed(tables.jobs,
                                 IF status = "saved"
                                 THEN Patched(tables.keywords, keywordId, TRUE)
                                 ELSE tables.keywords,
                                 With(tables.phrases, tables.issued.phrases + 1,
                                      Phrase(jobId, keywordId, status)),
                                 [tables.issued EXCEPT !.phrases = @ + 1],
                                 "phrases.create", tables.issued.phrases + 1, tables.flags)
    /\ ConvexFrame

\* a mutation: a phrase set to draft unmarks a keyword left without saved
\* phrases
keywordsAfterUpdateRechecked(keywords, phrases, id, status) ==
    IF status = "saved" THEN Patched(keywords, phrases[id].keywordId, TRUE)
    ELSE IF status = "draft"
            /\ \A i \in byKeyword(phrases, phrases[id].keywordId) \ {id} :
                   phrases[i].status # "saved"
    THEN Patched(keywords, phrases[id].keywordId, FALSE)
    ELSE keywords

\* the keywords after phrases.update: phrases.ts 77-86
keywordsAfterUpdate(keywords, phrases, id, status) ==
    IF status = "saved" THEN Patched(keywords, phrases[id].keywordId, TRUE) ELSE keywords

\* phrases.update: phrases.ts 53-90; status "" stands for a status that is
\* not given
phrasesUpdate ==
    /\ \E id \in 1..tables.issued.phrases, status \in {"", "draft", "saved"} :
        tables' = IF \/ id \notin DOMAIN tables.phrases
                     \/ /\ status = "saved"
                        /\ tables.phrases[id].keywordId \notin DOMAIN tables.keywords
                  THEN RolledBack("phrases.update", id)
                  ELSE Committed(tables.jobs,
                                 keywordsAfterUpdate(tables.keywords, tables.phrases, id, status),
                                 IF status = "" THEN tables.phrases
                                 ELSE [tables.phrases EXCEPT ![id].status = status],
                                 tables.issued, "phrases.update", id, tables.flags)
    /\ ConvexFrame

\* the saved phrases of the keyword that remain: phrases.ts 103-107
remainingPhrases(phrases, keywordId) ==
    {i \in byKeyword(phrases, keywordId) : phrases[i].status = "saved"}

\* phrases.remove: phrases.ts 92-116
phrasesRemove ==
    /\ \E id \in 1..tables.issued.phrases :
        tables' =
            IF id \notin DOMAIN tables.phrases
            THEN RolledBack("phrases.remove", id)
            ELSE IF remainingPhrases(Without(tables.phrases, {id}),
                                     tables.phrases[id].keywordId) # {}
            THEN Committed(tables.jobs, tables.keywords, Without(tables.phrases, {id}),
                           tables.issued, "phrases.remove", id, tables.flags)
            ELSE IF tables.phrases[id].keywordId \notin DOMAIN tables.keywords
            THEN RolledBack("phrases.remove", id)
            ELSE Committed(tables.jobs,
                           Patched(tables.keywords, tables.phrases[id].keywordId, FALSE),
                           Without(tables.phrases, {id}),
                           tables.issued, "phrases.remove", id, tables.flags)
    /\ ConvexFrame

-----------------------------------------------------------------------------
(* AISuggestions: the effect that asks for suggestions *)

\* The component is mounted and its props change while requests are in
\* flight.  Each run of the effect is one call of suggestPhrasing; what the
\* call gives is known by the run and by the props it was made for.

PropsValues == {"SQL", "React", "Go"}
Generated(run, props) == [run |-> run, props |-> props]
View(props, runs, pending, suggestions, isLoading, error) ==
    [props |-> props, runs |-> runs, pending |-> pending, suggestions |-> suggestions,
     isLoading |-> isLoading, error |-> error]
\* useState([]), useState(true), useState(null)
NoView == View("", 0, {}, Generated(0, ""), TRUE, "null")

ViewFrame ==
    UNCHANGED <<config, pc, request, fetchLog, response, download, frame, outcome,
                clientVars, calls, service, tables>>

\* a render with new props and the run of the effect that follows it, up to
\* its await: lines 26-36 and 45-46
effectRun ==
    /\ view.runs < MaxRuns
    /\ \E props \in PropsValues \ {view.props} :
        view' = View(props, view.runs + 1,
                     view.pending \cup {Generated(view.runs + 1, props)},
                     view.suggestions, TRUE, "null")
    /\ ViewFrame

\* a mutation: a call that is not the latest is ignored when it settles
settledIfLatest(call, ok) ==
    IF call.run # view.runs THEN [view EXCEPT !.pending = @ \ {call}]
    ELSE View(view.props, view.runs, view.pending \ {call},
              IF ok THEN call ELSE view.suggestions, FALSE,
              IF ok THEN view.error ELSE "Failed to generate suggestions")

\* the continuation of generateSuggestions: lines 37-42
settled(call, ok) ==
    View(view.props, view.runs, view.pending \ {call},
         IF ok THEN call ELSE view.suggestions, FALSE,
         IF ok THEN view.error ELSE "Failed to generate suggestions")

\* one of the calls in flight settles
effectSettled ==
    /\ \E call \in view.pending, ok \in BOOLEAN : view' = settled(call, ok)
    /\ ViewFrame

-----------------------------------------------------------------------------
(* Specification *)

\* the services constructed directly with a configuration object, which
\* they keep by reference; no call has been made
Init ==
    /\ config \in Configs
    /\ pc = "idle"
    /\ request = NoRequest
    /\ fetchLog = <<>>
    /\ response = NoResponse
    /\ download = NoDownload
    /\ frame = NoFrame
    /\ outcome = Pending
    /\ passed = config
    /\ client = NoClient
    /\ handed = NoObject
    /\ writes = 0
    /\ calls = NoCalls
    /\ service = NoService
    /\ tables = NoTables
    /\ view = NoView

Next ==
    \/ completeTextCall
    \/ completeTextResume
    \/ listModelsCall
    \/ listModelsResume
    \/ generateImageCall
    \/ generateImageResume
    \/ generateImageDownloaded

Spec == Init /\ [][Next]_vars

\* every fetch() and every read of a body settles: a call that waits at an
\* await is resumed
LiveSpec == Spec /\ WF_vars(Next)

\* the two operations that send a body, up to their fetch, on requests
\* that carry every property the body is made of
RequestNext ==
    \/ completeTextWith(FullTextRequests)
    \/ generateImageWith(FullImageRequests)

RequestSpec == Init /\ [][RequestNext]_vars

\* a caller that makes a configuration object and hands it to the factory;
\* here the upstream answers completeText only (no continuation reads the
\* configuration)
ClientInit ==
    /\ passed \in Configs
    /\ config = NoConfig
    /\ pc = "idle"
    /\ request = NoRequest
    /\ fetchLog = <<>>
    /\ response = NoResponse
    /\ download = NoDownload
    /\ frame = NoFrame
    /\ outcome = Pending
    /\ client = NoClient
    /\ handed = NoObject
    /\ writes = 0
    /\ calls = NoCalls
    /\ service = NoService
    /\ tables = NoTables
    /\ view = NoView

ClientNext ==
    \/ createOpenRouterClient
    \/ getConfig
    \/ mutatePassed
    \/ mutateReturned
    \/ clientCompleteText
    \/ completeTextResume
    \/ clientGenerateImage
    \/ clientListModels

ClientSpec == ClientInit /\ [][ClientNext]_vars

\* no call of the client is in progress
NoClientCall ==
    /\ pc = "idle"
    /\ request = NoRequest
    /\ fetchLog = <<>>
    /\ response = NoResponse
    /\ download = NoDownload
    /\ frame = NoFrame
    /\ outcome = Pending
    /\ handed = NoObject
    /\ writes = 0
    /\ calls = NoCalls

\* the singleton of the service, constructed with or without
\* VITE_OPENROUTER_API_KEY in the environment
ServiceInit ==
    /\ \E env \in {"", "sk-or-key"} :
        /\ service = Service(env, "idle", ServiceCall("none", "", "", ""), Pending)
        /\ passed = serviceConfig(env)
    /\ config = passed
    /\ client = Client("built", NoError, ObjectSpread("caller", "client"), passed, Methods)
    /\ NoClientCall
    /\ tables = NoTables
    /\ view = NoView

ServiceNext ==
    \/ serviceStart
    \/ serviceCompleteText
    \/ completeTextAnswered(ServiceResponses)
    \/ serviceSettle

ServiceSpec == ServiceInit /\ [][ServiceNext]_vars

\* the empty database
ConvexInit ==
    /\ tables = NoTables
    /\ config = NoConfig /\ passed = NoConfig /\ client = NoClient
    /\ NoClientCall
    /\ service = NoService
    /\ view = NoView

ConvexNext ==
    \/ jobsCreate
    \/ keywordsCreate
    \/ keywordsCreateMany
    \/ markAsMatched
    \/ keywordsRemove
    \/ jobsRemove
    \/ phrasesCreate
    \/ phrasesUpdate
    \/ phrasesRemove

ConvexSpec == ConvexInit /\ [][ConvexNext]_vars

\* the component before its first render
ViewInit ==
    /\ view = NoView
    /\ config = NoConfig /\ passed = NoConfig /\ client = NoClient
    /\ NoClientCall
    /\ service = NoService
    /\ tables = NoTables

ViewNext ==
    \/ effectRun
    \/ effectSettled

ViewSpec == ViewInit /\ [][ViewNext]_vars

\* two calls on the same services, interleaved at their awaits
ConcurrentNext ==
    \/ \E i \in CallIds : startCall(i)
    \/ \E i \in CallIds : resumeCall(i)
    \/ \E i \in CallIds : downloadedCall(i)

ConcurrentSpec == Init /\ [][ConcurrentNext]_vars

-----------------------------------------------------------------------------
(* Properties *)

Settled == outcome.state # "pending"
ResolvedCall(op) == request.op = op /\ outcome.state = "resolved"
ErrorMessage == outcome.error.message

\* the upstream answered 2xx with a body that was read and parsed as JSON
ParsedReply ==
    /\ response.net = "ok" /\ Ok(response) /\ response.readable
    /\ response.body.parsed # NotJson
ReplyJson == response.body.parsed
ReplyMessage == Get(First(Get(ReplyJson, "choices")), "message")
ReplyContent == Get(ReplyMessage, "content")

\* the upstream answered with a status outside 200..299
FailedReply == response.net = "ok" /\ ~Ok(response)

\* the fetches of the log that are of one of the given kinds
FetchesOf(kinds) == {i \in 1..Len(fetchLog) : fetchLog[i].kind \in kinds}

\* C1: with an empty apiKey no operation issues a fetch, and each of the
\* three operations rejects with the missing-credential error.
C1_EmptyKeyFailsBeforeFetch ==
    config.apiKey = "" =>
        /\ fetchLog = <<>>
        /\ request.op \in {"completeText", "generateImage", "listModels"} =>
               pc = "done" /\ outcome = Rejected(MissingKey)

C1_Witness ==
    /\ config.apiKey = ""
    /\ request.op = "generateImage"
    /\ outcome = Rejected(MissingKey)
    /\ fetchLog = <<>>

\* C2: after a 2xx reply that parsed, completeText fails with the "missing
\* content" error when the first choice's content is absent or not a
\* string, and it never resolves with an empty text.
C2_MissingContentFails ==
    /\ (request.op = "completeText" /\ pc = "done" /\ ParsedReply
        /\ ReplyContent.t # "string")
           => outcome = Rejected(MissingContent)
    /\ ResolvedCall("completeText") => StrLen(outcome.value.text) > 0

C2_Witness ==
    /\ request.op = "completeText" /\ pc = "done" /\ ParsedReply
    /\ ReplyContent = JNum(5)
    /\ outcome = Rejected(MissingContent)

\* C3: no operation resolves with an empty payload: a resolved completeText
\* has a non-empty text and a resolved generateImage has an image of at
\* least one byte.
C3_NoEmptyPayload ==
    /\ ResolvedCall("completeText") => StrLen(outcome.value.text) > 0
    /\ ResolvedCall("generateImage") => outcome.value.image.size > 0

\* generateImage reached the walk over the reply shapes
Normalised ==
    /\ request.op = "generateImage"
    /\ pc \in {"generateImage:download", "done"}
    /\ ParsedReply /\ Truthy(ReplyMessage)

\* the shapes whose code, run on the reply by itself, does not fall through
Offered == {k \in 1..5 : tryShape(k, ReplyJson, ReplyMessage).k # "null"}
Earliest == CHOOSE k \in Offered : \A j \in Offered : k <= j
DownloadFetches == FetchesOf({"download"})
ReportedModel == Or(Get(ReplyJson, "model"), frame.model)

\* C4: the reply shapes are tried in the order message.images, multipart
\* content, string content, message.image_url, data[0]; the call ends in
\* the earliest shape that yields anything, the returned image is that
\* shape's, and nothing is fetched for a later shape.
C4_EarliestShapeWins ==
    Normalised =>
        /\ Cardinality(DownloadFetches) <= 1
        /\ Offered = {} => DownloadFetches = {} /\ outcome.state = "rejected"
        /\ Offered # {} =>
            LET first == tryShape(Earliest, ReplyJson, ReplyMessage) IN
            /\ frame.shape = Earliest
            /\ first.k = "return" =>
                   /\ outcome = Resolved([image |-> first.blob, model |-> ReportedModel])
                   /\ DownloadFetches = {}
            /\ first.k = "throw" =>
                   outcome = Rejected(first.error) /\ DownloadFetches = {}
            /\ first.k = "fetch" =>
                   /\ Cardinality(DownloadFetches) = 1
                   /\ \A i \in DownloadFetches : fetchLog[i].url = first.url
                   /\ outcome.state = "resolved" =>
                          outcome.value.image.size = download.bytes

C4_Witness ==
    /\ Normalised /\ outcome.state = "resolved"
    /\ Earliest = 2 /\ frame.shape = 2
    /\ {4, 5} \subseteq Offered
    /\ DownloadFetches = {}

\* the first entry of message.images is an image_url entry whose URL is
\* data:image/<subtype>;base64,<payload>, with a payload that base64 decodes
\* to at least one byte
FirstImageUrl == UrlOf(Get(ReplyMessage, "images").a[1]).s
MarkerAt == FirstFrom(FirstImageUrl, 2, {";base64,"})
DeclaredSubtype == SubSeq(FirstImageUrl, 2, MarkerAt - 1)
WholePayload == SubSeq(FirstImageUrl, MarkerAt + 1, Len(FirstImageUrl))
DataUrlFirst ==
    /\ Normalised /\ pc = "done"
    /\ Get(ReplyMessage, "images").t = "array"
    /\ Len(Get(ReplyMessage, "images").a) > 0
    /\ Get(ReplyMessage, "images").a[1].type = "image_url"
    /\ Truthy(UrlOf(Get(ReplyMessage, "images").a[1]))
    /\ StartsWith(FirstImageUrl, "data:image/")
    /\ MarkerAt > 2 /\ MarkerAt < Len(FirstImageUrl)
    /\ \A i \in 2..(MarkerAt - 1) : FirstImageUrl[i].c \notin Semicolons
    /\ Atob(WholePayload).ok /\ Atob(WholePayload).length > 0

\* C5: for a reply whose image_url is data:image/<subtype>;base64,<payload>,
\* generateImage returns an image of as many bytes as the whole payload
\* decodes to, typed image/<subtype>, and reports the reply's model.
C5_DataUrlDecodesWholePayload ==
    DataUrlFirst =>
        outcome = Resolved([image |-> Blob(Atob(WholePayload).length,
                                           ImageType(DeclaredSubtype)),
                            model |-> ReportedModel])

\* the secondary download answered 2xx and its body was read
DownloadSucceeded ==
    /\ request.op = "generateImage" /\ pc = "done"
    /\ download.net = "ok" /\ Ok(download) /\ download.readable

C7_MessageHasStatusAndBody ==
    (FailedReply /\ pc = "done" /\ response.readable) =>
        /\ outcome.state = "rejected"
        /\ Contains(ErrorMessage, ToString(response.status))
        /\ Contains(ErrorMessage, response.body.text)

\* C7 amended: after a non-2xx answer whose body was read, each operation
\* rejects with an error whose message contains the status code;
\* completeText and listModels put the body text in the message as well,
\* generateImage puts the status text in the message and attaches the body
\* as responseText (re-serialised when it is JSON) and the status as status.
C7_StatusInMessageBodyCarried ==
    (FailedReply /\ pc = "done" /\ response.readable) =>
        /\ outcome.state = "rejected"
        /\ Contains(ErrorMessage, ToString(response.status))
        /\ request.op \in {"completeText", "listModels"} =>
               Contains(ErrorMessage, response.body.text)
        /\ request.op = "generateImage" =>
               /\ Contains(ErrorMessage, response.statusText)
               /\ outcome.error.status = response.status
               /\ outcome.error.responseText =
                      IF response.body.parsed = NotJson THEN response.body.text
                      ELSE Stringify2(response.body.parsed)

C7_Witness ==
    /\ FailedReply /\ pc = "done" /\ response.readable
    /\ request.op = "generateImage"
    /\ response.status = 401
    /\ response.body.parsed = ErrorDetailJson
    /\ outcome.state = "rejected"
    /\ outcome.error.responseText = Stringify2(ErrorDetailJson)
    /\ ~Contains(ErrorMessage, response.body.text)

\* C8: after a non-2xx answer whose body cannot be read, each operation
\* still rejects with the error that carries the status; the failure to
\* read the body is never the call's error.
C8_BodyReadFailureDegrades ==
    (FailedReply /\ pc = "done" /\ ~response.readable) =>
        /\ outcome.state = "rejected"
        /\ outcome.error # BodyReadFailed
        /\ Contains(ErrorMessage, ToString(response.status))

\* the call passed the checks of the credential and of the model
PassedValidation ==
    /\ config.apiKey # ""
    /\ CASE request.op = "completeText" ->
                ~InvalidModel(Or(request.model, config.defaultTextModel))
         [] request.op = "generateImage" ->
                ~InvalidModel(Or(request.model, config.defaultImageModel))
         [] request.op = "listModels" -> TRUE
         [] OTHER -> FALSE
EndpointFetches == FetchesOf({"completion", "listing"})

\* C9: nothing is retried: the completion or listing endpoint is requested
\* at most once, and exactly once by a call that passed validation,
\* whatever the upstream answers.
C9_EndpointRequestedOnce ==
    /\ Cardinality(EndpointFetches) <= 1
    /\ PassedValidation => Cardinality(EndpointFetches) = 1
    /\ \A i \in EndpointFetches :
           fetchLog[i].url = IF request.op = "listModels" THEN ModelsEndpoint
                             ELSE ChatEndpoint

C9_Witness ==
    /\ request.op = "completeText" /\ pc = "done"
    /\ FailedReply /\ response.status = 500
    /\ outcome.state = "rejected"
    /\ Cardinality(EndpointFetches) = 1

InList(list, m) == \E j \in 1..Len(list) : list[j] = m

\* C10: a listed model is in the text list exactly when its
\* output_modalities contain "text" and in the image list exactly when they
\* contain "image".
C10_MembershipByTag ==
    ResolvedCall("listModels") =>
        \A i \in 1..Len(ReplyJson.data.a) :
            LET m == ReplyJson.data.a[i] IN
            /\ InList(outcome.value.models.text, m)
                   <=> Includes(OutputModalities(m), "text")
            /\ InList(outcome.value.models.image, m)
                   <=> Includes(OutputModalities(m), "image")

\* the data array of the listing, and the same models in another order
ListedModels == ReplyJson.data.a
Reordered(ms, p) == [i \in 1..Len(ms) |-> ms[p[i]]]

\* C11: the lists listModels returns do not depend on the order of the
\* upstream data: every permutation of the same models, duplicate display
\* names included, is categorized into the same two lists in the same order.
C11_OrderIndependent ==
    ResolvedCall("listModels") =>
        \A p \in Permutations(1..Len(ListedModels)) :
            Categorize(Reordered(ListedModels, p)) = outcome.value.models

\* a list is in non-decreasing order of display name
SortedByName(list) ==
    \A i \in 1..Len(list) : \A j \in i..Len(list) :
        NameRank(list[i].name) <= NameRank(list[j].name)

\* C12: in every result of listModels the text list and the image list are
\* in non-decreasing order of display name under localeCompare.
C12_ListsSorted ==
    ResolvedCall("listModels") =>
        /\ SortedByName(outcome.value.models.text)
        /\ SortedByName(outcome.value.models.image)

C12_Witness ==
    /\ ResolvedCall("listModels")
    /\ Len(ListedModels) = 2
    /\ ListedModels[1].name = "Zeta" /\ ListedModels[2].name = "Alpha"
    /\ Len(outcome.value.models.text) = 2
    /\ outcome.value.models.text[1].name = "Alpha"
    /\ outcome.value.models.text[2].name = "Zeta"

InvalidFormat(data) ==
    Err(<<"OpenRouter models API returned invalid response format: expected data array, got ",
          TypeOf(data)>>)

\* C13: after a 2xx reply that parsed, listModels rejects with the
\* invalid-response-format error when the reply's data is absent or not an
\* array, and resolves otherwise; an empty data array gives two empty lists.
C13_InvalidFormatRejected ==
    (request.op = "listModels" /\ pc = "done" /\ ParsedReply) =>
        /\ Get(ReplyJson, "data").t # "array" =>
               outcome = Rejected(InvalidFormat(Get(ReplyJson, "data")))
        /\ Get(ReplyJson, "data").t = "array" => outcome.state = "resolved"
        /\ Get(ReplyJson, "data") = JArr(<<>>) =>
               outcome = Resolved([models |-> [text |-> <<>>, image |-> <<>>]])

\* the model completeText resolved before the request: the override when it
\* is given, else the configured default
RequestedTextModel ==
    IF Truthy(request.model) THEN request.model ELSE config.defaultTextModel

\* C18: a resolved completeText returns the content of the first choice's
\* message as text, unchanged; as model the reply's model when it has one
\* and else the model resolved for the request; as rawResponse the parsed
\* reply.
C18_ResultMirrorsReply ==
    ResolvedCall("completeText") =>
        /\ ParsedReply
        /\ outcome.value.text = ReplyContent.s
        /\ outcome.value.model =
               IF Truthy(Get(ReplyJson, "model")) THEN Get(ReplyJson, "model")
               ELSE RequestedTextModel
        /\ outcome.value.rawResponse = ReplyJson

C18_Witness ==
    /\ ResolvedCall("completeText")
    /\ Get(ReplyJson, "model") = Absent
    /\ request.model = JStr(<<R("SP", 1), R("o", 1), R("SP", 1)>>)
    /\ outcome.value.model = request.model
    /\ outcome.value.text = <<R("SP", 1), R("H", 1)>>
    /\ Len(Get(ReplyJson, "choices").a) = 2

MissingImageData ==
    <<"OpenRouter image response missing image data. Response structure: ",
      "<responseSummaryStr>">>
IsDiagnostic(error) ==
    /\ error.message = MissingImageData
    /\ DOMAIN error = {"message", "responseText", "status"}
    /\ error.status = response.status
LengthIfArray(v) == IF v.t = "array" THEN JNum(Len(v.a)) ELSE Absent

\* C20 as stated: when the reply has a first-choice message and the call
\* ends without an image, it rejects with the "missing image data" error.
C20_NoImageMeansDiagnostic ==
    (Normalised /\ pc = "done" /\ outcome.state # "resolved") =>
        outcome.state = "rejected" /\ IsDiagnostic(outcome.error)

\* C20 amended: when the reply has a first-choice message and every one of
\* the five shapes falls through, generateImage rejects with the "missing
\* image data" error, which carries the HTTP status and a summary of the
\* reply: its top-level keys, the presence and length of choices, data and
\* images, the type and length of the content.  The call resolves only when
\* some shape gave an image, and rejects with another error only when some
\* shape found a candidate.
C20_FallThroughMeansDiagnostic ==
    /\ (Normalised /\ pc = "done" /\ Offered = {}) =>
        /\ outcome.state = "rejected" /\ IsDiagnostic(outcome.error)
        /\ LET summary == outcome.error.responseText
               content == ReplyContent
           IN  /\ summary.topLevelKeys =
                      {f \in {"model", "choices", "data"} : ReplyJson[f] # Absent}
               /\ summary.hasChoices
               /\ summary.choicesLength = JNum(Len(Get(ReplyJson, "choices").a))
               /\ summary.hasData = (Get(ReplyJson, "data") # Absent)
               /\ summary.dataLength = LengthIfArray(Get(ReplyJson, "data"))
               /\ summary.hasImages = (Get(ReplyMessage, "images") # Absent)
               /\ summary.imagesLength = LengthIfArray(Get(ReplyMessage, "images"))
               /\ summary.firstChoiceContentType =
                      (CASE content.t = "undefined" -> "undefined"
                         [] content.t = "string" -> "string"
                         [] OTHER -> "object")
               /\ summary.firstChoiceContentLength =
                      IF content.t = "string" THEN JNum(StrLen(content.s)) ELSE Absent
    /\ ResolvedCall("generateImage") => Normalised /\ Offered # {}
    /\ (Normalised /\ pc = "done" /\ outcome.state = "rejected"
        /\ ~IsDiagnostic(outcome.error)) => Offered # {}

C20_Witness ==
    /\ Normalised /\ pc = "done" /\ Offered = {}
    /\ ReplyContent = JStr(BadLongBase64)
    /\ Get(ReplyMessage, "images") = JArr(<<Entry("text", Absent), Entry("image_url", UrlObj(FtpUrl))>>)
    /\ outcome.state = "rejected"
    /\ outcome.error.status = 200
    /\ outcome.error.responseText.imagesLength = JNum(2)
    /\ outcome.error.responseText.firstChoiceContentLength = JNum(201)

\* the operations that take a model, the model resolved for the request
\* (the override when it is given, else the configured default) and whether
\* it is a string with something other than white space in it
TakesModel == request.op \in {"completeText", "generateImage"}
RequestedModel ==
    IF Truthy(request.model) THEN request.model
    ELSE IF request.op = "completeText" THEN config.defaultTextModel
    ELSE config.defaultImageModel
Usable(model) ==
    /\ model.t = "string"
    /\ \E i \in 1..Len(model.s) : model.s[i].c \notin WhiteSpace /\ model.s[i].n > 0
ModelRequired ==
    IF request.op = "completeText" THEN TextModelRequired ELSE ImageModelRequired

\* C16 as stated: completeText and generateImage fetch only when the model
\* resolved for the request is a string that is not empty after trimming;
\* otherwise the call rejects with the model-required error and nothing is
\* fetched.
C16_ModelCheckedBeforeFetch ==
    TakesModel =>
        /\ fetchLog # <<>> => Usable(RequestedModel)
        /\ ~Usable(RequestedModel) =>
               /\ pc = "done" /\ fetchLog = <<>>
               /\ outcome = Rejected(ModelRequired)

\* C16 amended: completeText and generateImage fetch only when the apiKey is
\* present and the model resolved for the request is a string that is not
\* empty after trimming; otherwise nothing is fetched and the call rejects,
\* with the missing-credential error when the apiKey is empty and with the
\* model-required error when only the model is unusable.
C16_KeyThenModelCheckedBeforeFetch ==
    TakesModel =>
        /\ fetchLog # <<>> => config.apiKey # "" /\ Usable(RequestedModel)
        /\ (config.apiKey # "" /\ Usable(RequestedModel)) => fetchLog # <<>>
        /\ ~Usable(RequestedModel) =>
               /\ pc = "done" /\ fetchLog = <<>>
               /\ outcome = Rejected(IF config.apiKey = "" THEN MissingKey
                                     ELSE ModelRequired)

C16_Witness ==
    /\ request.op = "generateImage" /\ pc = "done"
    /\ config.apiKey # "" /\ Usable(config.defaultImageModel)
    /\ request.model = JStr(Ch("SP"))
    /\ outcome = Rejected(ImageModelRequired)
    /\ fetchLog = <<>>

\* the call was given an override that is not empty after trimming, and got
\* past the credential check
UsableOverride == TakesModel /\ Usable(request.model) /\ config.apiKey # ""

\* C17 as stated: an override that is present and not empty after trimming is
\* the model sent upstream, whatever the configured default is.
C17_OverrideIsSent ==
    UsableOverride =>
        /\ Len(fetchLog) >= 1
        /\ fetchLog[1].kind = "completion"
        /\ fetchLog[1].model = request.model

\* C17 amended: an override that is present and not empty after trimming is
\* the model sent upstream, whatever the configured default is: completeText
\* sends it trimmed, generateImage sends it as it was given.
C17_OverrideIsSentTrimmedByText ==
    UsableOverride =>
        /\ Len(fetchLog) >= 1
        /\ fetchLog[1].kind = "completion"
        /\ fetchLog[1].model =
               IF request.op = "completeText" THEN JStr(Trim(request.model.s))
               ELSE request.model

C17_Witness ==
    /\ UsableOverride /\ request.op = "completeText"
    /\ config.defaultTextModel = JStr(<<>>)
    /\ request.model = JStr(<<R("SP", 1), R("o", 1), R("SP", 1)>>)
    /\ fetchLog[1].model = JStr(Ch("o"))

\* the factory has run; the configuration it was given
FactoryRan == client.state # "none"
Given == client.given

\* C14: createOpenRouterClient throws and gives no client when the apiKey,
\* the default text model or the default image model is empty, reporting
\* the first of them in that order; with all three non-empty it returns an
\* object with generateImage, completeText, listModels and getConfig.
C14_FactoryValidates ==
    FactoryRan =>
        /\ Given.apiKey = "" =>
               client.error = Err(<<"OpenRouter API key is required">>)
        /\ (Given.apiKey # "" /\ Given.defaultTextModel = JStr(<<>>)) =>
               client.error = Err(<<"Default text model is required">>)
        /\ (Given.apiKey # "" /\ Given.defaultTextModel # JStr(<<>>)
            /\ Given.defaultImageModel = JStr(<<>>)) =>
               client.error = Err(<<"Default image model is required">>)
        /\ client.error # NoError =>
               /\ client.state = "threw" /\ client.methods = {}
               /\ pc = "idle" /\ fetchLog = <<>> /\ handed = NoObject
        /\ (Given.apiKey # "" /\ Given.defaultTextModel # JStr(<<>>)
            /\ Given.defaultImageModel # JStr(<<>>)) =>
               /\ client.state = "built" /\ client.error = NoError
               /\ client.methods =
                      {"generateImage", "completeText", "listModels", "getConfig"}

C14_Witness ==
    /\ client.state = "threw"
    /\ passed.apiKey = "" /\ passed.defaultTextModel = JStr(<<>>)
    /\ passed.defaultImageModel = JStr(<<>>)
    /\ client.error = Err(<<"OpenRouter API key is required">>)

\* the model a call without an override sends for the configuration cfg
DefaultSent(cfg) ==
    CASE request.op = "completeText" -> JStr(Trim(cfg.defaultTextModel.s))
      [] request.op = "generateImage" -> cfg.defaultImageModel
      [] OTHER -> Absent

\* C15: whatever the caller writes to the object it passed to the factory
\* and to the objects getConfig returned, and whatever operations ran, the
\* client's configuration stays the one given at construction: getConfig
\* returns it and the operations send its apiKey and its default models.
C15_ConfigImmutable ==
    client.state = "built" =>
        /\ config = Given
        /\ handed.ref # "none" => handed.asReturned = Given
        /\ \A i \in EndpointFetches :
            /\ fetchLog[i].authorization = Given.apiKey
            /\ request.model = Absent => fetchLog[i].model = DefaultSent(Given)

C15_Witness ==
    /\ client.state = "built"
    /\ writes = 2
    /\ passed.apiKey = "sk-other"
    /\ handed.ref # "none" /\ handed.value.defaultTextModel = JStr(Ch("e"))
    /\ handed.asReturned = Given
    /\ request.op = "completeText" /\ request.model = Absent /\ pc = "done"
    /\ fetchLog[1].authorization = "sk-or-key"
    /\ fetchLog[1].model = JStr(Ch("d"))

\* the call made of the same request, run by itself against the same answers
RunAlone(cfg, req, res, dl) ==
    LET started == Started(cfg, req)
        replied == IF started.pc = "fetch" THEN Replied(started, started.frame, res)
                   ELSE started
    IN  IF replied.pc = "download" THEN Downloaded(replied, replied.frame, dl)
        ELSE replied

\* C19: two calls on the same services, interleaved at their awaits in any
\* way, are independent: a call that has ended has the outcome, and has
\* issued the fetches, of the same request run alone against the same
\* answers, and a step of one call changes neither the other call nor the
\* configuration.
C19_CallsIndependent ==
    /\ [](\A i \in CallIds :
            calls[i].pc = "done" =>
                calls[i] = RunAlone(config, calls[i].request, calls[i].response,
                                    calls[i].download))
    /\ [][/\ config' = config
          /\ \A i \in CallIds :
                calls'[i] # calls[i] => \A j \in CallIds \ {i} : calls'[j] = calls[j]]_vars

C19_Witness ==
    /\ calls[1].pc = "done" /\ calls[2].pc = "done"
    /\ calls[1].request.op = "generateImage" /\ calls[1].request.model # Absent
    /\ calls[2].request.op = "completeText" /\ calls[2].request.model = Absent
    /\ calls[1].outcome.state = "resolved" /\ calls[2].outcome.state = "resolved"
    /\ calls[1].outcome.value.model = calls[1].request.model
    /\ calls[2].outcome.value.model = config.defaultTextModel
    /\ Len(fetchLog) = 3
    /\ fetchLog[1] = calls[1].fetches[1]
    /\ fetchLog[2] = calls[2].fetches[1]
    /\ fetchLog[3] = calls[1].fetches[2]

\* string content that passes for bare base64 (more than 100 characters, all
\* of the base64 alphabet once white space is dropped) and that atob refuses
\* or that decodes to 100 bytes or fewer, or to 10 MiB or more
BareBase64Bytes == Atob(ReplyContent.s)
BareBase64Unusable ==
    /\ Normalised
    /\ Truthy(ReplyContent) /\ ReplyContent.t = "string"
    /\ StrLen(ReplyContent.s) > 100
    /\ LooksLikeBase64(ReplyContent.s)
    /\ \/ ~BareBase64Bytes.ok
       \/ BareBase64Bytes.length <= 100
       \/ BareBase64Bytes.length >= 10 * 1024 * 1024
    /\ tryShape(1, ReplyJson, ReplyMessage).k = "null"
LaterOffered == Offered \cap {4, 5}
FirstLater == CHOOSE k \in LaterOffered : \A j \in LaterOffered : k <= j

\* C21: when string content passes for bare base64 but cannot be decoded, or
\* decodes to a size outside 100 bytes .. 10 MiB (exclusive), the call does
\* not end at the string content: it ends in message.image_url if there is
\* one, else in data[0] if that has b64_json or url, and else rejects with
\* the "missing image data" error.
C21_BadBase64FallsThrough ==
    BareBase64Unusable =>
        /\ frame.shape # 3
        /\ LaterOffered = {} =>
               /\ pc = "done" /\ DownloadFetches = {}
               /\ outcome.state = "rejected" /\ IsDiagnostic(outcome.error)
        /\ LaterOffered # {} =>
               LET later == tryShape(FirstLater, ReplyJson, ReplyMessage) IN
               /\ frame.shape = FirstLater
               /\ later.k = "fetch" =>
                      \A i \in DownloadFetches : fetchLog[i].url = later.url
               /\ later.k = "return" =>
                      outcome = Resolved([image |-> later.blob, model |-> ReportedModel])
               /\ later.k = "throw" => outcome = Rejected(later.error)

\* atob refuses the content and data[0] gives the image
C21_Witness ==
    /\ BareBase64Unusable /\ pc = "done"
    /\ ReplyContent = JStr(BadLongBase64)
    /\ ~BareBase64Bytes.ok
    /\ LaterOffered = {5}
    /\ outcome.state = "resolved" /\ outcome.value.image = Blob(1, ImagePng)

\* the sizes at and beyond the limits fall through as well
C21_SizeWitness ==
    /\ BareBase64Unusable /\ pc = "done"
    /\ ReplyContent \in {JStr(EdgeBase64), JStr(HugeBase64)}
    /\ BareBase64Bytes.ok
    /\ LaterOffered = {}
    /\ IsDiagnostic(outcome.error)

\* the first entry of message.images is an image_url entry whose URL is
\* data:image/;base64,<payload>: no subtype stands between "data:image/" and
\* the marker, and the payload base64 decodes to at least one byte
EmptySubtypeFirst ==
    /\ Normalised /\ pc = "done"
    /\ Get(ReplyMessage, "images").t = "array"
    /\ Len(Get(ReplyMessage, "images").a) > 0
    /\ Get(ReplyMessage, "images").a[1].type = "image_url"
    /\ Truthy(UrlOf(Get(ReplyMessage, "images").a[1]))
    /\ StartsWith(FirstImageUrl, "data:image/")
    /\ MarkerAt = 2 /\ MarkerAt < Len(FirstImageUrl)
    /\ Atob(WholePayload).ok /\ Atob(WholePayload).length > 0

\* C25: for an image entry whose URL is a base64 data URL with a subtype
\* that cannot be parsed, generateImage returns the decoded payload typed
\* image/png.
C25_UnparsedSubtypeDefaultsToPng ==
    EmptySubtypeFirst =>
        outcome = Resolved([image |-> Blob(Atob(WholePayload).length, ImagePng),
                            model |-> ReportedModel])

\* the secondary download answered with a status outside 200..299
DownloadRefused ==
    /\ request.op = "generateImage" /\ pc = "done"
    /\ download.net = "ok" /\ ~Ok(download)

GenerateImageFetches ==
    /\ Len(fetchLog) <= 2
    /\ Cardinality(FetchesOf({"completion"})) <= 1
    /\ Cardinality(DownloadFetches) <= 1
    /\ DownloadFetches # {} => FetchesOf({"completion"}) = {1}
    /\ pc = "done" <=> Settled

\* C29: a generateImage call issues at most two HTTP requests, the
\* completion request and at most one download, and once started it ends
\* with a result or an error.
C29_AtMostTwoRequests ==
    /\ [](request.op = "generateImage" => GenerateImageFetches)
    /\ (request.op = "generateImage") ~> (pc = "done" /\ Settled)

\* both entries of message.images carry an HTTP(S) URL
C29_Witness ==
    /\ request.op = "generateImage" /\ pc = "done"
    /\ Get(ReplyMessage, "images") =
           JArr(<<Entry("image_url", UrlObj(HttpsUrl)),
                  Entry("image_url", UrlObj(HttpsUrl))>>)
    /\ Truthy(Get(ReplyMessage, "image_url"))
    /\ Len(fetchLog) = 2
    /\ outcome.state = "resolved"

\* the call issued its completion request, and the body of that request
Requested(op) == request.op = op /\ Len(fetchLog) > 0
SentBody == fetchLog[1].body
Supplied(f) == Field(request, f) # Absent

\* the size for a width and a height: square when equal, landscape when
\* the width is larger, portrait otherwise
SizeFor(width, height) ==
    CASE width.n = height.n -> Size("1024x1024")
      [] width.n > height.n -> Size("1792x1024")
      [] OTHER -> Size("1024x1792")

\* C23 as stated: the size sent is targetSize when it is supplied; else,
\* when width and height are both supplied, the size for them; else
\* 1024x1024.
C23_SizePrecedence ==
    Requested("generateImage") =>
        SentBody.size =
            IF Supplied("targetSize") THEN request.targetSize
            ELSE IF Supplied("width") /\ Supplied("height")
            THEN SizeFor(request.width, request.height)
            ELSE Size("1024x1024")

\* C23 amended: the size sent is targetSize when it is supplied; else, when
\* width and height are both supplied and neither is 0, the size for them;
\* else (one of them missing or 0) 1024x1024.  width and height are sent
\* under the same condition, whatever targetSize is.
C23_SizePrecedenceNonZero ==
    Requested("generateImage") =>
        LET both == /\ Supplied("width") /\ Supplied("height")
                    /\ request.width.n # 0 /\ request.height.n # 0
        IN  /\ SentBody.size =
                   IF Supplied("targetSize") THEN request.targetSize
                   ELSE IF both THEN SizeFor(request.width, request.height)
                   ELSE Size("1024x1024")
            /\ both <=> {"width", "height"} \subseteq DOMAIN SentBody
            /\ ~both => {"width", "height"} \cap DOMAIN SentBody = {}

\* targetSize wins over a landscape width and height
C23_Witness ==
    /\ Requested("generateImage")
    /\ request.targetSize = Size("256x256")
    /\ request.width = JNum(1024) /\ request.height = JNum(512)
    /\ SentBody.size = Size("256x256")
    /\ SentBody.width = JNum(1024)

\* the JSON text of each payload of the requests
ExpectedJson(payload) ==
    CASE payload = Payload(Absent, Absent) -> "{}"
      [] payload = Payload(JStr(Ch("k")), Absent) -> "{\"keyword\":\"k\"}"
      [] payload = Payload(JStr(<<R("k", 1), R("LF", 1)>>), JNum(0)) ->
             "{\"keyword\":\"k\\n\",\"count\":0}"
      [] payload = Payload(JNull, JNum(3)) -> "{\"keyword\":null,\"count\":3}"

\* C24: the body of completeText has two messages, the system turn with
\* systemPrompt and then the user turn with the JSON text of userPayload;
\* it asks for the json_object reply mode; it has temperature (top_p)
\* exactly when request.temperature (request.topP) is a number, 0 included,
\* and then with that value.
C24_TextBody ==
    Requested("completeText") =>
        /\ SentBody.messages.t = "array" /\ Len(SentBody.messages.a) = 2
        /\ SentBody.messages.a[1] =
               [t |-> "object", role |-> Text("system"), content |-> request.systemPrompt]
        /\ SentBody.messages.a[2] =
               [t |-> "object", role |-> Text("user"),
                content |-> Text(ExpectedJson(request.userPayload))]
        /\ SentBody.response_format = [t |-> "object", type |-> Text("json_object")]
        /\ "temperature" \in DOMAIN SentBody <=> request.temperature.t = "number"
        /\ "temperature" \in DOMAIN SentBody => SentBody.temperature = request.temperature
        /\ "top_p" \in DOMAIN SentBody <=> request.topP.t = "number"
        /\ "top_p" \in DOMAIN SentBody => SentBody.top_p = request.topP

\* temperature 0 is sent, a topP of null is not
C24_Witness ==
    /\ Requested("completeText")
    /\ request.temperature = JNum(0) /\ request.topP = JNull
    /\ SentBody.temperature = JNum(0)
    /\ "top_p" \notin DOMAIN SentBody
    /\ SentBody.messages.a[2].content = Text("{\"keyword\":\"k\\n\",\"count\":0}")

\* the texts of the form each operation expects: an array or an object with
\* the array under the operation's key, and an object with a boolean matches
ExpectedTexts(op) ==
    CASE op = "extractKeywords" ->
             {Ch("[\"React\",\"\",5,\"SQL\",\"Go\",\"TS\"]"), Ch("{\"keywords\":[\"SQL\",null]}")}
      [] op = "suggestPhrasing" ->
             {Ch("[\"React\",\"\",5,\"SQL\",\"Go\",\"TS\"]"),
              Ch("{\"phrases\":[\"a\",\"b\",\"c\",\"d\"]}")}
      [] OTHER -> {Ch("{\"matches\":true}")}

\* completeText failed, or its text is not of the form the operation expects
ReplyUnusable ==
    \/ outcome.state = "rejected"
    \/ outcome.state = "resolved" /\ outcome.value.text \notin ExpectedTexts(service.call.op)

\* C22: an operation of OpenRouterService that has ended has resolved;
\* without an API key it gives the local fallback and the client made no
\* request; when completeText failed or its text is not JSON of the expected
\* form it gives the local fallback
C22_ServiceAlwaysResolves ==
    service.state = "done" =>
        /\ service.result.state = "resolved"
        /\ service.env = "" =>
            /\ fetchLog = <<>> /\ pc = "idle"
            /\ service.result.value = keyMissingFallback(service.call)
        /\ (service.env # "" /\ ReplyUnusable) =>
            service.result.value = failureFallback(service.call)

\* C22 witness: the upstream answered with text that is not JSON and the
\* operation resolved with its fallback
C22_Witness ==
    /\ service.state = "done"
    /\ service.env # ""
    /\ outcome.state = "resolved"
    /\ JsonParse(outcome.value.text) = NotJson
    /\ service.result = Resolved(failureFallback(service.call))

\* C22 witness: completeText rejected and the operation resolved
C22_RejectedWitness ==
    /\ service.state = "done"
    /\ outcome.state = "rejected"
    /\ service.result = Resolved(failureFallback(service.call))

\* C22 witness: without an API key the operation resolved at once
C22_NoKeyWitness ==
    /\ service.state = "done"
    /\ service.env = ""
    /\ service.call.op = "suggestPhrasing"
    /\ Len(service.result.value.list) = 3

\* the last mutation was op, it committed, and only creates ran before it
AfterCreates(op) ==
    tables.last.op = op /\ tables.last.ok /\ tables.flags.creating

\* nothing that remains refers to job J: no keyword of J, no phrase of J and
\* no phrase of a keyword that is gone
JobGone(J) ==
    /\ J \notin tables.jobs
    /\ \A k \in DOMAIN tables.keywords : tables.keywords[k].jobId # J
    /\ \A p \in DOMAIN tables.phrases :
        /\ tables.phrases[p].jobId # J
        /\ tables.phrases[p].keywordId \in DOMAIN tables.keywords

\* no phrase that remains refers to keyword K
KeywordGone(K) ==
    /\ K \notin DOMAIN tables.keywords
    /\ \A p \in DOMAIN tables.phrases : tables.phrases[p].keywordId # K

\* C26: after jobs.remove(J) that follows creates only, job J is gone, no
\* keyword and no phrase has jobId J and no phrase has the keywordId of a
\* deleted keyword; after keywords.remove(K) no phrase has keywordId K
C26_CascadeDelete ==
    /\ AfterCreates("jobs.remove") => JobGone(tables.last.id)
    /\ AfterCreates("keywords.remove") => KeywordGone(tables.last.id)

\* C26, the part that holds: the job and its keywords are gone, and so are
\* the phrases of its keywords; after keywords.remove(K) the phrases of K
C26_KeywordsCascade ==
    /\ AfterCreates("jobs.remove") =>
        /\ tables.last.id \notin tables.jobs
        /\ \A k \in DOMAIN tables.keywords : tables.keywords[k].jobId # tables.last.id
        /\ \A p \in DOMAIN tables.phrases :
            tables.phrases[p].keywordId \in DOMAIN tables.keywords
    /\ AfterCreates("keywords.remove") => KeywordGone(tables.last.id)

\* C27: with no call of markAsMatched and no keyword or job removed, a
\* keyword is matched exactly when a saved phrase refers to it
C27_MatchedIffSaved ==
    (~tables.flags.marked /\ ~tables.flags.removed) =>
        \A k \in DOMAIN tables.keywords :
            tables.keywords[k].isMatched <=> remainingPhrases(tables.phrases, k) # {}

\* C27, the direction that holds: a keyword with a saved phrase is matched
C27_SavedIsMatched ==
    (~tables.flags.marked /\ ~tables.flags.removed) =>
        \A k \in DOMAIN tables.keywords :
            remainingPhrases(tables.phrases, k) # {} => tables.keywords[k].isMatched

\* C30: once every call of suggestPhrasing has settled and none of them is
\* shown as failed, the suggestions displayed are those the latest run of the
\* effect asked for, for the props the component has now, and isLoading is
\* false
C30_LatestInputsDisplayed ==
    (view.runs > 0 /\ view.pending = {} /\ view.error = "null") =>
        /\ view.suggestions = Generated(view.runs, view.props)
        /\ ~view.isLoading

\* C30, the part that holds: with nothing in flight isLoading is false
C30_LoadingEnds == (view.runs > 0 /\ view.pending = {}) => ~view.isLoading

====
